---- MODULE Spec2Model ----
(***************************************************************************)
(* Ingestion, enrichment, owner edit and delete of the image gallery       *)
(* backend (image_service.py, ai_service.py, main.py), modelled over three *)
(* external stores: the blob store, the images table and the               *)
(* image_metadata table.                                                   *)
(*                                                                         *)
(* Spec      : uploads, enrichment tasks, deletes and patches interleaved, *)
(*             with failing store calls.                                   *)
(* BulkSpec  : one bulk upload, file by file.                              *)
(* ListSpec, SimilarSpec, OwnerSpec, DeleteSpec, SummarySpec : the read    *)
(*             requests and the owner's requests with their responses,     *)
(*             over the catalogues a few uploads by two users leave behind.*)
(* ValidateSpec, NameSpec, PathSpec : validate_image_file,                 *)
(*             generate_filename_from_description and the storage path of  *)
(*             upload_to_storage, applied to the inputs drawn by Init.     *)
(*                                                                         *)
(* Contents of descriptions, tags, colors and names are abstracted to the  *)
(* branch of the code that produced them ("ai", "mock", "error", ...).     *)
(* Every call on an external store may fail; the failure is an input of    *)
(* the action that makes the call, and the number of failures in one run   *)
(* is bounded by MaxFaults.                                                *)
(***************************************************************************)
EXTENDS Integers, FiniteSets, Sequences, TLC

\* Number of ingest (process_image_upload) calls explored.
MaxIngests == 1

\* Number of failing calls on the blob store and the record store explored.
MaxFaults == 2

\* Number of metadata patches that reach the record store.
MaxPatches == 1

Users == {"u1", "u2"}

\* Upload kinds: accepted and thumbnailable; valid image over the size limit;
\* not an image at all; passes Image.verify but cannot be decoded in full.
Files == {"good", "oversize", "notimage", "truncated"}

\* Outcomes of the vision provider call inside analyze_image.
ProviderOutcomes == {"unconfigured", "raises", "notjson", "nondict", "missing", "ok"}

PatchFields == {"description", "tags", "colors"}

\* The field sets of the patch requests explored.
PatchRequests == {{}, {"description"}, {"tags", "colors"}, PatchFields}

\* original_path = None / thumbnail_path = None
NoPath == [owner |-> "none", folder |-> "none", uid |-> 0]

VARIABLES
    blobs,        \* paths present in the storage bucket
    images,       \* rows of table images
    metadata,     \* rows of table image_metadata
    nIngests,     \* ingest calls started so far
    nFaults,      \* failed store calls so far
    nPatches,     \* metadata patches written so far
    ing,          \* the process_image_upload call in progress
    tasks,        \* enrichment tasks created by asyncio.create_task, not yet run
    bulk,         \* the upload_multiple_images call in progress
    call          \* the last read or owner request with its response

vars == <<blobs, images, metadata, nIngests, nFaults, nPatches, ing, tasks, bulk, call>>

\* No bulk upload is in progress.
NoBulk == [pc |-> "idle"]

\* No request has been answered yet.
NoCall == [op |-> "none"]

----------------------------------------------------------------------------
(* Record store and blob store primitives *)

RowsOf(meta, id) == {r \in meta : r.image_id = id}

\* Position of a new row among the rows of its image, in insertion order
\* (image_metadata.id is a serial; rows leave only with their image).
NextOrd(meta, id) == Cardinality(RowsOf(meta, id)) + 1

\* Number of failed calls among the outcomes of the calls an action makes.
Failures(flags) == Cardinality({k \in DOMAIN flags : ~flags[k]})

Charge(n) == nFaults + n <= MaxFaults /\ nFaults' = nFaults + n

\* supabase.table('image_metadata').insert(row).execute(): rejected when the
\* store rejects the call or the image row does not exist (foreign key).
insert_metadata(meta, imgs, row, ok) ==
    IF ok /\ \E i \in imgs : i.id = row.image_id
    THEN [metadata |-> meta \cup {row}, raised |-> FALSE]
    ELSE [metadata |-> meta, raised |-> TRUE]

\* uuid.uuid4(): a value no other call returns; n is the ordinal of the ingest.
uuid4(n, folder) == IF folder = "original" THEN 2 * n - 1 ELSE 2 * n

\* The storage path up to the uuid; the extension that follows it is added
\* by storage_path.
StoragePath(user_id, folder, uid) == [owner |-> user_id, folder |-> folder, uid |-> uid]

upload_to_storage_swallow(bs, user_id, folder, uid, ok) ==
    IF ok
    THEN [blobs |-> bs \cup {StoragePath(user_id, folder, uid)},
          path |-> StoragePath(user_id, folder, uid), raised |-> FALSE]
    ELSE [blobs |-> bs, path |-> NoPath, raised |-> FALSE]

\* upload_to_storage: returns the path, or raises HTTPException(500).
upload_to_storage(bs, user_id, folder, uid, ok) ==
    IF ok
    THEN [blobs |-> bs \cup {StoragePath(user_id, folder, uid)},
          path |-> StoragePath(user_id, folder, uid), raised |-> FALSE]
    ELSE [blobs |-> bs, path |-> NoPath, raised |-> TRUE]

delete_from_storage_raising(bs, path, ok) ==
    [blobs |-> IF ok THEN bs \ {path} ELSE bs, raised |-> ~ok]

\* delete_from_storage: a failed remove is printed, never raised.
delete_from_storage(bs, path, ok) ==
    [blobs |-> IF ok THEN bs \ {path} ELSE bs, raised |-> FALSE]

----------------------------------------------------------------------------
(* process_image_upload *)

IdleIngest ==
    [pc |-> "idle", user |-> "none", file |-> "none",
     original_path |-> NoPath, thumbnail_path |-> NoPath,
     image_id |-> 0, err |-> "none",
     puts |-> {}, delIssued |-> {}, delFailed |-> {}, scheduled |-> FALSE]

\* validate_image_file accepts (the four checks pass).
validate_image_file(f) == f \in {"good", "truncated"}

\* create_thumbnail returns bytes (does not raise).
create_thumbnail(f) == f \in {"good", "oversize"}

StepAfterUploadFirst(pc) ==
    CASE pc = "validate"         -> "upload_original"
      [] pc = "upload_original"  -> "thumbnail"
      [] pc = "thumbnail"        -> "upload_thumbnail"
      [] pc = "upload_thumbnail" -> "create_record"
      [] pc = "create_record"    -> "schedule"
      [] pc = "schedule"         -> "return"
      [] pc = "return"           -> "ok"

\* Order of the steps inside the try block.
StepAfter(pc) ==
    CASE pc = "validate"         -> "thumbnail"
      [] pc = "thumbnail"        -> "upload_original"
      [] pc = "upload_original"  -> "upload_thumbnail"
      [] pc = "upload_thumbnail" -> "create_record"
      [] pc = "create_record"    -> "schedule"
      [] pc = "schedule"         -> "return"
      [] pc = "return"           -> "ok"

AtYieldPointAwaitTask(pc) == pc \in {"idle", "validate", "return"}

\* Places where the coroutine gives the event loop to other coroutines: the
\* real awaits (file.read / file.seek) and the time between calls.  The
\* awaited helpers upload_to_storage, create_image_record and
\* delete_from_storage contain no await of their own.
AtYieldPoint(pc) == pc \in {"idle", "validate"}

ScheduleFailureRaisesUnguarded == TRUE

\* An exception while queueing the task is caught by the inner try/except.
ScheduleFailureRaises == FALSE

CleanupPathsOriginalOnly(original_path, thumbnail_path) ==
    {p \in {original_path} : p # NoPath}

\* The blobs the except handlers delete: "if original_path", "if thumbnail_path".
CleanupPaths(original_path, thumbnail_path) ==
    {p \in {original_path, thumbnail_path} : p # NoPath}

Fail(err) == ing' = [ing EXCEPT !.pc = "cleanup_original", !.err = err]

IngestStart(u, f) ==
    /\ ing.pc = "idle"
    /\ nIngests < MaxIngests
    /\ nIngests' = nIngests + 1
    /\ ing' = [IdleIngest EXCEPT !.pc = "validate", !.user = u, !.file = f]
    /\ UNCHANGED <<blobs, images, metadata, nFaults, nPatches, tasks>>

Validate ==
    /\ ing.pc = "validate"
    /\ IF validate_image_file(ing.file)
       THEN ing' = [ing EXCEPT !.pc = StepAfter("validate")]
       ELSE Fail("validation")
    /\ UNCHANGED <<blobs, images, metadata, nIngests, nFaults, nPatches, tasks>>

CreateThumbnail ==
    /\ ing.pc = "thumbnail"
    /\ IF create_thumbnail(ing.file)
       THEN ing' = [ing EXCEPT !.pc = StepAfter("thumbnail")]
       ELSE Fail("thumbnail")
    /\ UNCHANGED <<blobs, images, metadata, nIngests, nFaults, nPatches, tasks>>

UploadOriginal(ok) ==
    /\ ing.pc = "upload_original"
    /\ Charge(Failures(<<ok>>))
    /\ LET r == upload_to_storage(blobs, ing.user, "original",
                                  uuid4(nIngests, "original"), ok) IN
         /\ blobs' = r.blobs
         /\ IF r.raised
            THEN Fail("upload_original")
            ELSE ing' = [ing EXCEPT !.pc = StepAfter("upload_original"),
                                    !.original_path = r.path,
                                    !.puts = @ \cup (r.blobs \ blobs)]
    /\ UNCHANGED <<images, metadata, nIngests, nPatches, tasks>>

UploadThumbnail(ok) ==
    /\ ing.pc = "upload_thumbnail"
    /\ Charge(Failures(<<ok>>))
    /\ LET r == upload_to_storage(blobs, ing.user, "thumbnail",
                                  uuid4(nIngests, "thumbnail"), ok) IN
         /\ blobs' = r.blobs
         /\ IF r.raised
            THEN Fail("upload_thumbnail")
            ELSE ing' = [ing EXCEPT !.pc = StepAfter("upload_thumbnail"),
                                    !.thumbnail_path = r.path,
                                    !.puts = @ \cup (r.blobs \ blobs)]
    /\ UNCHANGED <<images, metadata, nIngests, nPatches, tasks>>

PendingRow(id, ord) ==
    [image_id |-> id, ord |-> ord, status |-> "pending",
     description |-> "null", tags |-> "null", colors |-> "null", name |-> "null"]

\* create_image_record: insert into images, then insert the pending metadata
\* row; r is the store's behaviour: "insert_fails", "meta_fails" or "ok".
create_image_record(imgs, meta, id, user_id, original_path, thumbnail_path, r) ==
    LET row == [id |-> id, user_id |-> user_id,
                original_path |-> original_path, thumbnail_path |-> thumbnail_path]
        m   == insert_metadata(meta, imgs \cup {row},
                               PendingRow(id, NextOrd(meta, id)), r = "ok")
    IN  IF r = "insert_fails"
        THEN [images |-> imgs, metadata |-> meta, raised |-> TRUE]
        ELSE [images |-> imgs \cup {row}, metadata |-> m.metadata, raised |-> m.raised]

CreateImageRecordGoingOn(r) ==
    /\ ing.pc = "create_record"
    /\ Charge(Failures(<<r = "ok">>))
    /\ LET c == create_image_record(images, metadata, nIngests, ing.user,
                                    ing.original_path, ing.thumbnail_path, r) IN
         /\ images' = c.images
         /\ metadata' = c.metadata
         /\ ing' = [ing EXCEPT !.pc = StepAfter("create_record"),
                               !.image_id = nIngests]
    /\ UNCHANGED <<blobs, nIngests, nPatches, tasks>>

\* The id the images table assigns: a serial, here the ordinal of the ingest.
CreateImageRecord(r) ==
    /\ ing.pc = "create_record"
    /\ Charge(Failures(<<r = "ok">>))
    /\ LET c == create_image_record(images, metadata, nIngests, ing.user,
                                    ing.original_path, ing.thumbnail_path, r) IN
         /\ images' = c.images
         /\ metadata' = c.metadata
         /\ IF c.raised
            THEN Fail("record")
            ELSE ing' = [ing EXCEPT !.pc = StepAfter("create_record"),
                                    !.image_id = nIngests]
    /\ UNCHANGED <<blobs, nIngests, nPatches, tasks>>

\* asyncio.create_task(process_image_with_ai(...)) inside its own try/except.
ScheduleTask(ok) ==
    /\ ing.pc = "schedule"
    /\ Charge(Failures(<<ok>>))
    /\ IF ok
       THEN /\ tasks' = tasks \cup {[image_id |-> ing.image_id, user_id |-> ing.user,
                                     image_bytes |-> ing.file]}
            /\ ing' = [ing EXCEPT !.pc = StepAfter("schedule"), !.scheduled = TRUE]
       ELSE /\ tasks' = tasks
            /\ IF ScheduleFailureRaises
               THEN Fail("schedule")
               ELSE ing' = [ing EXCEPT !.pc = StepAfter("schedule")]
    /\ UNCHANGED <<blobs, images, metadata, nIngests, nPatches>>

Return ==
    /\ ing.pc = "return"
    /\ ing' = [ing EXCEPT !.pc = StepAfter("return")]
    /\ UNCHANGED <<blobs, images, metadata, nIngests, nFaults, nPatches, tasks>>

\* except handler, first statement: if original_path: delete_from_storage(...)
CleanupOriginal(ok) ==
    /\ ing.pc = "cleanup_original"
    /\ Charge(Failures(<<ok>>))
    /\ IF ing.original_path \in CleanupPaths(ing.original_path, ing.thumbnail_path)
       THEN LET d == delete_from_storage(blobs, ing.original_path, ok) IN
              /\ blobs' = d.blobs
              /\ IF d.raised
                 THEN ing' = [ing EXCEPT !.pc = "error", !.err = "delete",
                                         !.delIssued = @ \cup {ing.original_path},
                                         !.delFailed = @ \cup (blobs' \cap {ing.original_path})]
                 ELSE ing' = [ing EXCEPT !.pc = "cleanup_thumbnail",
                                         !.delIssued = @ \cup {ing.original_path},
                                         !.delFailed = @ \cup (blobs' \cap {ing.original_path})]
       ELSE /\ ok
            /\ blobs' = blobs
            /\ ing' = [ing EXCEPT !.pc = "cleanup_thumbnail"]
    /\ UNCHANGED <<images, metadata, nIngests, nPatches, tasks>>

\* except handler, second statement and the raise that ends the call.
CleanupThumbnail(ok) ==
    /\ ing.pc = "cleanup_thumbnail"
    /\ Charge(Failures(<<ok>>))
    /\ IF ing.thumbnail_path \in CleanupPaths(ing.original_path, ing.thumbnail_path)
       THEN LET d == delete_from_storage(blobs, ing.thumbnail_path, ok) IN
              /\ blobs' = d.blobs
              /\ ing' = [ing EXCEPT !.pc = "error",
                                    !.err = IF d.raised THEN "delete" ELSE @,
                                    !.delIssued = @ \cup {ing.thumbnail_path},
                                    !.delFailed = @ \cup (blobs' \cap {ing.thumbnail_path})]
       ELSE /\ ok
            /\ blobs' = blobs
            /\ ing' = [ing EXCEPT !.pc = "error"]
    /\ UNCHANGED <<images, metadata, nIngests, nPatches, tasks>>

\* upload_image (main.py): the result or the HTTPException of
\* process_image_upload goes to the client and the request ends.
Respond ==
    /\ ing.pc \in {"ok", "error"}
    /\ ing' = IdleIngest
    /\ UNCHANGED <<blobs, images, metadata, nIngests, nFaults, nPatches, tasks>>

----------------------------------------------------------------------------
(* Enrichment: analyze_image and process_image_with_ai *)

get_mock_analysis ==
    [tags |-> "mock", description |-> "mock", colors |-> "local",
     name |-> "mock", status |-> "completed"]

FailedAnalysis ==
    [tags |-> "error", description |-> "error", colors |-> "black",
     name |-> "null", status |-> "failed"]

DefaultsAnalysis ==
    [tags |-> "empty", description |-> "default", colors |-> "default",
     name |-> "default", status |-> "completed"]

ProviderAnalysis ==
    [tags |-> "ai", description |-> "ai", colors |-> "ai",
     name |-> "ai", status |-> "completed"]

analyze_image_no_fallback(p) ==
    CASE p = "unconfigured" -> get_mock_analysis
      [] p = "notjson"      -> FailedAnalysis
      [] p = "missing"      -> DefaultsAnalysis
      [] p = "ok"           -> ProviderAnalysis
      [] OTHER              -> FailedAnalysis

\* analyze_image: mock analysis when the client is not configured or the
\* reply is not JSON (json.JSONDecodeError); the "failed" analysis on any
\* other exception (the API call raising, or JSON that is not an object of
\* the expected shape); the .get defaults when the object lacks the keys.
analyze_image(p) ==
    CASE p = "unconfigured" -> get_mock_analysis
      [] p = "notjson"      -> get_mock_analysis
      [] p = "missing"      -> DefaultsAnalysis
      [] p = "ok"           -> ProviderAnalysis
      [] OTHER              -> FailedAnalysis

\* .update(metadata).eq('image_id', image_id): every matching row is rewritten.
UpdateRows(meta, id, a) ==
    {IF r.image_id = id
     THEN [r EXCEPT !.description = a.description, !.tags = a.tags,
                    !.colors = a.colors, !.name = a.name, !.status = a.status]
     ELSE r : r \in meta}

AnalysisRow(id, ord, a) ==
    [image_id |-> id, ord |-> ord, status |-> a.status,
     description |-> a.description, tags |-> a.tags, colors |-> a.colors,
     name |-> a.name]

\* The row of the except branch of process_image_with_ai.
ErrorRow(id, ord) ==
    [image_id |-> id, ord |-> ord, status |-> "failed",
     description |-> "error2", tags |-> "error", colors |-> "black",
     name |-> "null"]

\* process_image_with_ai: analysis, select, update-or-insert; on an exception
\* insert the error row (its own failure swallowed) and re-raise.
\* store: "ok", "select_fails" or "write_fails"; errIns: whether the store
\* accepts the insert of the error row.
process_image_with_ai(meta, imgs, id, p, store, errIns) ==
    LET a   == analyze_image(p)
        ord == NextOrd(meta, id)
        try == IF store = "select_fails"
               THEN [metadata |-> meta, raised |-> TRUE]
               ELSE IF RowsOf(meta, id) # {}
                    THEN IF store = "ok"
                         THEN [metadata |-> UpdateRows(meta, id, a), raised |-> FALSE]
                         ELSE [metadata |-> meta, raised |-> TRUE]
                    ELSE insert_metadata(meta, imgs, AnalysisRow(id, ord, a), store = "ok")
    IN  IF try.raised
        THEN [metadata |-> insert_metadata(meta, imgs, ErrorRow(id, ord), errIns).metadata,
              raised |-> TRUE]
        ELSE try

Enrich(t, p, store, errIns) ==
    /\ t \in tasks
    /\ AtYieldPoint(ing.pc)
    /\ Charge(Failures(<<store = "ok">>))
    /\ LET e == process_image_with_ai(metadata, images, t.image_id, p, store, errIns) IN
         /\ e.raised \/ errIns
         /\ metadata' = e.metadata
    /\ tasks' = tasks \ {t}
    /\ UNCHANGED <<blobs, images, nIngests, nPatches, ing>>

----------------------------------------------------------------------------
(* Owner requests: delete_image and update_image_metadata (main.py) *)

DeleteImageOriginalBlobOnly(u, id, selOk, d1Ok, d2Ok, delOk) ==
    /\ AtYieldPoint(ing.pc)
    /\ Charge(Failures(<<selOk, d1Ok, d2Ok, delOk>>))
    /\ LET found == {i \in images : i.id = id /\ i.user_id = u} IN
         IF ~selOk \/ found = {}
         THEN /\ d1Ok /\ d2Ok /\ delOk
              /\ UNCHANGED <<blobs, images, metadata>>
         ELSE LET image == CHOOSE i \in found : TRUE
                  s1 == delete_from_storage(blobs, image.original_path, d1Ok)
              IN  IF ~delOk
                  THEN /\ blobs' = s1.blobs
                       /\ UNCHANGED <<images, metadata>>
                  ELSE /\ blobs' = s1.blobs
                       /\ images' = images \ {image}
                       /\ metadata' = metadata \ RowsOf(metadata, id)
    /\ UNCHANGED <<nIngests, nPatches, ing, tasks>>

\* delete_image: select by id and user_id, delete both blobs, delete the row
\* (image_metadata rows go with it by cascade).
DeleteImage(u, id, selOk, d1Ok, d2Ok, delOk) ==
    /\ AtYieldPoint(ing.pc)
    /\ Charge(Failures(<<selOk, d1Ok, d2Ok, delOk>>))
    /\ LET found == {i \in images : i.id = id /\ i.user_id = u} IN
         IF ~selOk \/ found = {}
         THEN /\ d1Ok /\ d2Ok /\ delOk
              /\ UNCHANGED <<blobs, images, metadata>>
         ELSE LET image == CHOOSE i \in found : TRUE
                  s1 == delete_from_storage(blobs, image.original_path, d1Ok)
                  s2 == delete_from_storage(s1.blobs, image.thumbnail_path, d2Ok)
              IN  IF s1.raised
                  THEN /\ d2Ok /\ delOk
                       /\ blobs' = s1.blobs
                       /\ UNCHANGED <<images, metadata>>
                  ELSE IF s2.raised
                  THEN /\ delOk
                       /\ blobs' = s2.blobs
                       /\ UNCHANGED <<images, metadata>>
                  ELSE IF ~delOk
                  THEN /\ blobs' = s2.blobs
                       /\ UNCHANGED <<images, metadata>>
                  ELSE /\ blobs' = s2.blobs
                       /\ images' = images \ {image}
                       /\ metadata' = metadata \ RowsOf(metadata, id)
    /\ UNCHANGED <<nIngests, nPatches, ing, tasks>>

ApplyPatchRequeue(r, fields) ==
    [r EXCEPT !.description = IF "description" \in fields THEN "owner" ELSE @,
              !.tags = IF "tags" \in fields THEN "owner" ELSE @,
              !.colors = IF "colors" \in fields THEN "owner" ELSE @,
              !.status = "pending"]

ApplyPatchAllFields(r, fields) ==
    [r EXCEPT !.description = IF "description" \in fields THEN "owner" ELSE "empty",
              !.tags = IF "tags" \in fields THEN "owner" ELSE "empty",
              !.colors = IF "colors" \in fields THEN "owner" ELSE "empty"]

\* update_data holds only the fields the request supplies.
ApplyPatch(r, fields) ==
    [r EXCEPT !.description = IF "description" \in fields THEN "owner" ELSE @,
              !.tags = IF "tags" \in fields THEN "owner" ELSE @,
              !.colors = IF "colors" \in fields THEN "owner" ELSE @]

\* The row inserted when the image has no metadata row: missing fields get
\* '' / [], the status column is left to the table default.
PatchInsertRow(id, ord, fields) ==
    [image_id |-> id, ord |-> ord, status |-> "dbdefault",
     description |-> IF "description" \in fields THEN "owner" ELSE "empty",
     tags |-> IF "tags" \in fields THEN "owner" ELSE "empty",
     colors |-> IF "colors" \in fields THEN "owner" ELSE "empty",
     name |-> "null"]

\* update_image_metadata: 400 without fields or with a malformed color, 404
\* when the image is not the caller's, else update the rows or insert one.
UpdateImageMetadata(u, id, fields, colorsValid, selOk, wrOk) ==
    /\ AtYieldPoint(ing.pc)
    /\ Charge(Failures(<<selOk, wrOk>>))
    /\ "colors" \notin fields => colorsValid
    /\ IF \/ fields = {}
          \/ ~selOk
          \/ ~\E i \in images : i.id = id /\ i.user_id = u
          \/ ("colors" \in fields /\ ~colorsValid)
       THEN /\ wrOk
            /\ fields = {} => selOk
            /\ UNCHANGED <<metadata, nPatches>>
       ELSE /\ nPatches < MaxPatches
            /\ nPatches' = nPatches + 1
            /\ IF RowsOf(metadata, id) # {}
               THEN metadata' = IF wrOk
                                THEN {IF r.image_id = id THEN ApplyPatch(r, fields) ELSE r :
                                        r \in metadata}
                                ELSE metadata
               ELSE metadata' = insert_metadata(metadata, images,
                                    PatchInsertRow(id, NextOrd(metadata, id), fields),
                                    wrOk).metadata
    /\ UNCHANGED <<blobs, images, nIngests, ing, tasks>>

----------------------------------------------------------------------------
(* The stored values the content names stand for, as the read requests see *)
(* them: tag lists, color lists, description texts and generated names.    *)

\* image_metadata.tags: the provider's tags lower-cased, the list of an
\* owner's patch, the list of get_mock_analysis; None and [] read as [].
TagList(c) ==
    CASE c = "ai"    -> <<"beach", "sunset", "ocean">>
      [] c = "owner" -> <<"beach", "sky">>
      [] c = "mock"  -> <<"photograph", "image", "digital", "visual", "content", "media">>
      [] OTHER       -> <<>>

\* image_metadata.colors: the provider's three colors, the list of an owner's
\* patch, the ColorThief colors of the mock analysis, the longer list of
\* another owner's patch (a patch may carry any number of colors).
ColorList(c) ==
    CASE c = "ai"    -> <<"#FF6B35", "#F39C12", "#4A90E2">>
      [] c = "owner" -> <<"#000000", "#FFFFFF">>
      [] c = "local" -> <<"#4A90E2", "#2ECC71", "#101010">>
      [] c = "palette" -> <<"#111111", "#222222", "#FF6B35", "#333333", "#444444">>
      [] OTHER       -> <<>>

\* image_metadata.description as str.split() cuts it.
DescriptionWords(c) ==
    CASE c = "ai"    -> <<"A", "sunset", "over", "the", "Beach">>
      [] c = "owner" -> <<"Holiday", "at", "sea">>
      [] c = "mock"  -> <<"An", "image", "with", "various", "visual", "elements",
                          "and", "content.">>
      [] OTHER       -> <<>>

\* image_metadata.ai_generated_name (generate_filename_from_description of
\* the description); "null" is None.
GeneratedName(c) ==
    CASE c = "ai"   -> "a-sunset-over-the-beach"
      [] c = "mock" -> "an-image-with-various-visual-elements-and-content"
      [] OTHER      -> "null"

\* str.lower() on the strings of the catalogue.
lower(s) ==
    CASE s = "A"         -> "a"
      [] s = "An"        -> "an"
      [] s = "Beach"     -> "beach"
      [] s = "Holiday"   -> "holiday"
      [] s = "Zebra"     -> "zebra"
      [] s = "Mango"     -> "mango"
      [] s = "Zebra.png" -> "zebra.png"
      [] s = "Mango.JPG" -> "mango.jpg"
      [] s = "SUN"       -> "sun"
      [] OTHER           -> s

\* filename.rsplit('.', 1)[0]
FilenameWithoutExt(f) ==
    CASE f = "Zebra.png"      -> "Zebra"
      [] f = "apple.jpg"      -> "apple"
      [] f = "Mango.JPG"      -> "Mango"
      [] f = "beach.trip.png" -> "beach.trip"

\* The lower-cased display names in the order of Python's string comparison.
AlphaOrder ==
    <<"a-sunset-over-the-beach", "an-image-with-various-visual-elements-and-content",
      "apple", "beach.trip", "mango", "zebra">>

\* Position of a lower-cased display name in that order.
AlphaRank(s) == CHOOSE k \in 1..Len(AlphaOrder) : AlphaOrder[k] = s

\* "needle in text" for the lower-cased search terms and texts of the catalogue.
Contains(text, needle) ==
    CASE needle = "beach" -> text \in {"beach", "a-sunset-over-the-beach", "beach.trip.png"}
      [] needle = "sun"   -> text \in {"sunset", "a-sunset-over-the-beach"}
      [] OTHER            -> text = needle

Range(seq) == {seq[k] : k \in 1..Len(seq)}

----------------------------------------------------------------------------
(* get_images / get_user_images: listing with filters and sorting *)

\* Number of catalogue items the read requests are explored over.
MaxItems == 3

\* Query bounds of get_images.
MinLimit == 1
MaxLimit == 100
MinOffset == 0

SortOptions == {"recent", "oldest", "a-z", "z-a"}

\* images.filename of the catalogue items, by id.
Filenames == <<"Zebra.png", "apple.jpg", "Mango.JPG", "beach.trip.png">>

filename(id) == Filenames[((id - 1) % Len(Filenames)) + 1]

\* The embedded image_metadata of an image when it has no row.
NoMeta == [description |-> "null", tags |-> "null", colors |-> "null", name |-> "null"]

\* image.get('image_metadata') normalised: meta[0] of a list embed, else {}.
Embed(meta, id) ==
    IF RowsOf(meta, id) = {}
    THEN NoMeta
    ELSE CHOOSE r \in RowsOf(meta, id) : \A q \in RowsOf(meta, id) : r.ord <= q.ord

\* .order('uploaded_at', desc=...): uploaded_at is the insert time, so the
\* order is the order of the serial ids.
RECURSIVE OrderById(_, _)
OrderById(ids, desc) ==
    IF ids = {}
    THEN <<>>
    ELSE LET first == IF desc
                      THEN CHOOSE i \in ids : \A j \in ids : j <= i
                      ELSE CHOOSE i \in ids : \A j \in ids : i <= j
         IN  <<first>> \o OrderById(ids \ {first}, desc)

\* .range(offset, offset + limit - 1) on the ordered rows.
RangeOf(rows, offset, limit) ==
    SubSeq(rows, offset + 1, IF offset + limit < Len(rows) THEN offset + limit ELSE Len(rows))

\* One listed image with its metadata flattened into it.
Flatten(imgs, meta, id) ==
    LET i == CHOOSE x \in imgs : x.id = id
        m == Embed(meta, id)
    IN  [id |-> id, user_id |-> i.user_id, filename |-> i.filename,
         description |-> DescriptionWords(m.description),
         tags |-> TagList(m.tags), colors |-> ColorList(m.colors),
         ai_generated_name |-> GeneratedName(m.name)]

HasAnyOf(img, wanted) == img.tags # <<>> /\ \E t \in Range(wanted) : t \in Range(img.tags)

\* img.get('tags') and all(tag in img.get('tags', []) for tag in tags)
HasAllTags(img, wanted) == img.tags # <<>> /\ \A t \in Range(wanted) : t \in Range(img.tags)

\* img.get('colors') and all(color in img.get('colors', []) for color in colors)
HasAllColors(img, wanted) ==
    img.colors # <<>> /\ \A c \in Range(wanted) : c \in Range(img.colors)

\* The text search: description, any tag, filename, generated name.
MatchesSearch(img, search) ==
    LET search_lower == lower(search) IN
      \/ \E w \in Range(img.description) : Contains(lower(w), search_lower)
      \/ \E t \in Range(img.tags) : Contains(lower(t), search_lower)
      \/ Contains(lower(img.filename), search_lower)
      \/ /\ img.ai_generated_name # "null"
         /\ Contains(lower(img.ai_generated_name), search_lower)

\* display_name: the generated name if there is one, else the filename
\* without its extension.
display_name(img) ==
    IF img.ai_generated_name # "null"
    THEN img.ai_generated_name
    ELSE FilenameWithoutExt(img.filename)

\* sorted(images, key=lambda x: x['display_name'].lower(), reverse=...):
\* a stable sort, also when reversed.
RECURSIVE sorted(_, _)
sorted(seq, reverse) ==
    IF seq = <<>>
    THEN <<>>
    ELSE LET n    == Len(seq)
             x    == seq[n]
             kx   == AlphaRank(lower(display_name(x)))
             rest == sorted(SubSeq(seq, 1, n - 1), reverse)
             keep == {k \in 1..Len(rest) :
                        LET ky == AlphaRank(lower(display_name(rest[k]))) IN
                          IF reverse THEN ky >= kx ELSE ky <= kx}
             cut  == Cardinality(keep)
         IN  SubSeq(rest, 1, cut) \o <<x>> \o SubSeq(rest, cut + 1, Len(rest))

\* get_user_images: the owner's rows in uploaded_at order, cut to the range
\* of the page by the store; then, on the rows of that page, the tags, colors
\* and search filters, the count, and the sort by display name.
get_user_images(imgs, meta, user_id, limit, offset, search, tags, colors, sort_by) ==
    LET own      == {i.id : i \in {x \in imgs : x.user_id = user_id}}
        rows     == RangeOf(OrderById(own, sort_by # "oldest"), offset, limit)
        flat     == [k \in 1..Len(rows) |-> Flatten(imgs, meta, rows[k])]
        byTags   == IF tags # <<>>
                    THEN SelectSeq(flat, LAMBDA img : HasAllTags(img, tags)) ELSE flat
        byColors == IF colors # <<>>
                    THEN SelectSeq(byTags, LAMBDA img : HasAllColors(img, colors))
                    ELSE byTags
        filtered == IF search # ""
                    THEN SelectSeq(byColors, LAMBDA img : MatchesSearch(img, search))
                    ELSE byColors
        ordered  == IF sort_by = "a-z" THEN sorted(filtered, FALSE)
                    ELSE IF sort_by = "z-a" THEN sorted(filtered, TRUE)
                    ELSE filtered
    IN  [images |-> ordered, total |-> Len(filtered)]

Ids(seq) == [k \in 1..Len(seq) |-> seq[k].id]

get_images_clamped(imgs, meta, user_id, limit, offset, search, tags, colors, sort_by, fetchOk) ==
    LET l == IF limit < MinLimit THEN MinLimit ELSE IF limit > MaxLimit THEN MaxLimit ELSE limit
        o == IF offset < MinOffset THEN MinOffset ELSE offset
        s == IF sort_by \in SortOptions THEN sort_by ELSE "recent"
        r == get_user_images(imgs, meta, user_id, l, o, search, tags, colors, s)
    IN  IF ~fetchOk
        THEN [status |-> 500, fetched |-> TRUE, items |-> <<>>, total |-> 0]
        ELSE [status |-> 200, fetched |-> TRUE, items |-> Ids(r.images), total |-> r.total]

\* get_images: limit, offset and sort_by are validated, then get_user_images
\* runs; an exception of the fetch becomes HTTPException(500).  `fetched`
\* tells whether the handler reached query.execute().
get_images(imgs, meta, user_id, limit, offset, search, tags, colors, sort_by, fetchOk) ==
    IF limit < MinLimit \/ limit > MaxLimit
    THEN [status |-> 400, fetched |-> FALSE, items |-> <<>>, total |-> 0]
    ELSE IF offset < MinOffset
    THEN [status |-> 400, fetched |-> FALSE, items |-> <<>>, total |-> 0]
    ELSE IF sort_by \notin SortOptions
    THEN [status |-> 400, fetched |-> FALSE, items |-> <<>>, total |-> 0]
    ELSE IF ~fetchOk
    THEN [status |-> 500, fetched |-> TRUE, items |-> <<>>, total |-> 0]
    ELSE LET r == get_user_images(imgs, meta, user_id, limit, offset,
                                  search, tags, colors, sort_by)
         IN  [status |-> 200, fetched |-> TRUE, items |-> Ids(r.images), total |-> r.total]

\* The filters of the list requests explored: search, tags, colors.
ListFilters ==
    {[search |-> "",      tags |-> <<>>,                  colors |-> <<>>],
     [search |-> "",      tags |-> <<"beach">>,           colors |-> <<>>],
     [search |-> "",      tags |-> <<"beach", "sunset">>, colors |-> <<>>],
     [search |-> "",      tags |-> <<>>,                  colors |-> <<"#4A90E2", "#F39C12">>],
     [search |-> "SUN",   tags |-> <<>>,                  colors |-> <<>>],
     [search |-> "beach", tags |-> <<"beach">>,           colors |-> <<"#000000">>]}

\* A request is taken up when the previous one has been answered.
Idle == call.op = "none"

\* GET /images
ListItems(u, limit, offset, f, sort_by, fetchOk) ==
    /\ Idle
    /\ call' = [op |-> "list", user |-> u, limit |-> limit, offset |-> offset,
                search |-> f.search, tags |-> f.tags, colors |-> f.colors,
                sort_by |-> sort_by, fetchOk |-> fetchOk] @@
               get_images(images, metadata, u, limit, offset,
                          f.search, f.tags, f.colors, sort_by, fetchOk)
    /\ UNCHANGED <<blobs, images, metadata, nIngests, nFaults, nPatches, ing, tasks, bulk>>

\* The response has been sent.
Done ==
    /\ ~Idle
    /\ call' = NoCall
    /\ UNCHANGED <<blobs, images, metadata, nIngests, nFaults, nPatches, ing, tasks, bulk>>

\* The metadata an item of the catalogue may carry: no row (the insert of the
\* pending row failed), the pending row, the provider's analysis, the
\* analysis after an owner's patch of all three fields, the mock analysis.
Profiles ==
    {[status |-> "none"],
     [status |-> "pending", description |-> "null", tags |-> "null",
      colors |-> "null", name |-> "null"],
     [status |-> "completed", description |-> "ai", tags |-> "ai",
      colors |-> "ai", name |-> "ai"],
     [status |-> "completed", description |-> "owner", tags |-> "owner",
      colors |-> "owner", name |-> "ai"],
     [status |-> "completed", description |-> "mock", tags |-> "mock",
      colors |-> "local", name |-> "mock"]}

\* The images row create_image_record leaves for the id-th upload.
CatalogImage(id, u) ==
    [id |-> id, user_id |-> u, filename |-> filename(id),
     original_path |-> StoragePath(u, "original", uuid4(id, "original")),
     thumbnail_path |-> StoragePath(u, "thumbnail", uuid4(id, "thumbnail"))]

CatalogRows(id, p) ==
    IF p.status = "none" THEN {} ELSE {[image_id |-> id, ord |-> 1] @@ p}

\* A store after MaxItems uploads by the two users and their enrichment; the
\* users are interchangeable, the first upload is taken to be u1's.
Catalog(profiles) ==
    \E owner \in {o \in [1..MaxItems -> Users] : o[1] = "u1"},
       profile \in [1..MaxItems -> profiles] :
      /\ images = {CatalogImage(i, owner[i]) : i \in 1..MaxItems}
      /\ metadata = UNION {CatalogRows(i, profile[i]) : i \in 1..MaxItems}
      /\ blobs = UNION {{CatalogImage(i, owner[i]).original_path,
                         CatalogImage(i, owner[i]).thumbnail_path} : i \in 1..MaxItems}
      /\ nIngests = MaxItems
      /\ nFaults = 0
      /\ nPatches = 0
      /\ ing = IdleIngest
      /\ tasks = {}
      /\ bulk = NoBulk
      /\ call = NoCall

\* The list requests explored: every user, page, filter and sort order, and
\* the requests with a limit, offset or sort_by out of range or a failing fetch.
ListRequests ==
    [user : Users, limit : {1, 2}, offset : {0, 1}, filter : ListFilters,
     sort_by : SortOptions, fetchOk : {TRUE}]
    \cup
    [user : {"u1"}, limit : {0, 1, 101}, offset : {-1, 0}, filter : {CHOOSE f \in ListFilters :
                                                                   f.search = "SUN"},
     sort_by : {"recent", "newest"}, fetchOk : BOOLEAN]

\* The listing is explored over items without a metadata row and items with
\* a written one (a pending row reads like no row: its fields are None).
ListInit == Catalog({p \in Profiles : p.status # "pending"})

ListNext ==
    \/ \E r \in ListRequests :
         ListItems(r.user, r.limit, r.offset, r.filter, r.sort_by, r.fetchOk)
    \/ Done

ListSpec == ListInit /\ [][ListNext]_vars

----------------------------------------------------------------------------
(* get_similar_images: scoring and ranking *)

\* Bounds of the limit parameter of get_similar_images.
MinSimilarLimit == 1
MaxSimilarLimit == 50

\* Weights of the tag, color and keyword similarity, in percent.
TagWeight == 50
ColorWeight == 30
KeywordWeight == 20

\* set(word for word in description.lower().split() if len(word) > 3)
Keywords(words) == {lower(w) : w \in {x \in Range(words) : Len(lower(x)) > 3}}

OverlapOfCandidate(ref, cand) ==
    [m |-> Cardinality(ref \cap cand), n |-> Cardinality(cand)]

\* len(ref.intersection(cand)) / len(ref), as the fraction m/n; n = 0 stands
\* for the branch of an empty reference set, where the similarity is 0.
Overlap(ref, cand) ==
    [m |-> Cardinality(ref \cap cand), n |-> Cardinality(ref)]

Denominator(o) == IF o.n = 0 THEN 1 ELSE o.n

\* similarity_percentage = 0.5 * tag + 0.3 * color + 0.2 * keyword with each
\* similarity (m / n) * 100, kept as the exact fraction num/den.
similarity_percentage(ref, cand) ==
    LET t == Overlap(Range(ref.tags), Range(cand.tags))
        c == Overlap(Range(ref.colors), Range(cand.colors))
        k == Overlap(Keywords(ref.description), Keywords(cand.description))
        dt == Denominator(t)
        dc == Denominator(c)
        dk == Denominator(k)
    IN  [num |-> TagWeight * t.m * dc * dk + ColorWeight * c.m * dt * dk
                 + KeywordWeight * k.m * dt * dc,
         den |-> dt * dc * dk]

\* round(x, 1) in tenths, for x = num/den: to the nearest tenth, a half to
\* the even one.
round1(x) ==
    LET q == (10 * x.num) \div x.den
        r == (10 * x.num) % x.den
    IN  IF 2 * r > x.den THEN q + 1
        ELSE IF 2 * r = x.den THEN q + (q % 2)
        ELSE q

\* similar_images.sort(key=similarity_percentage, reverse=True): stable.
RECURSIVE sort_by_similarity(_)
sort_by_similarity(seq) ==
    IF seq = <<>>
    THEN <<>>
    ELSE LET n    == Len(seq)
             x    == seq[n]
             rest == sort_by_similarity(SubSeq(seq, 1, n - 1))
             cut  == Cardinality({k \in 1..Len(rest) : rest[k].score >= x.score})
         IN  SubSeq(rest, 1, cut) \o <<x>> \o SubSeq(rest, cut + 1, Len(rest))

CutThenRank(seq, limit) ==
    sort_by_similarity(SubSeq(seq, 1, IF limit < Len(seq) THEN limit ELSE Len(seq)))

\* Sort by similarity, then similar_images[:limit].
RankThenCut(seq, limit) ==
    SubSeq(sort_by_similarity(seq), 1, IF limit < Len(seq) THEN limit ELSE Len(seq))

CandidatesWithReference(imgs, user_id, image_id) ==
    {i.id : i \in {x \in imgs : x.user_id = user_id}}

\* .eq('user_id', user_id).neq('id', image_id)
Candidates(imgs, user_id, image_id) ==
    {i.id : i \in {x \in imgs : x.user_id = user_id /\ x.id # image_id}}

\* get_similar_images.  refOk, fetchOk: whether the select of the reference
\* and the select of the candidates succeed; desc: the order in which the
\* store returns the candidates (the query has no order clause).  `fetched`
\* tells whether the candidates were selected.
get_similar_images(imgs, meta, user_id, image_id, limit, desc, refOk, fetchOk) ==
    LET none == [fetched |-> FALSE, items |-> <<>>] IN
    IF limit < MinSimilarLimit \/ limit > MaxSimilarLimit
    THEN [status |-> 400] @@ none
    ELSE IF ~refOk
    THEN [status |-> 500] @@ none
    ELSE IF ~\E i \in imgs : i.id = image_id
    THEN [status |-> 404] @@ none
    ELSE IF (CHOOSE i \in imgs : i.id = image_id).user_id # user_id
    THEN [status |-> 403] @@ none
    ELSE IF ~fetchOk
    THEN [status |-> 500, fetched |-> TRUE, items |-> <<>>]
    ELSE LET ref    == Flatten(imgs, meta, image_id)
             rows   == OrderById(Candidates(imgs, user_id, image_id), desc)
             scored == [k \in 1..Len(rows) |->
                          [id |-> rows[k],
                           exact |-> similarity_percentage(ref, Flatten(imgs, meta, rows[k])),
                           score |-> round1(similarity_percentage(
                                               ref, Flatten(imgs, meta, rows[k])))]]
             some   == SelectSeq(scored, LAMBDA s : s.exact.num > 0)
             top    == RankThenCut(some, limit)
         IN  [status |-> 200, fetched |-> TRUE,
              items |-> [k \in 1..Len(top) |-> [id |-> top[k].id, score |-> top[k].score]]]

\* GET /images/{image_id}/similar
FindSimilar(u, id, limit, desc, refOk, fetchOk) ==
    /\ Idle
    /\ call' = [op |-> "similar", user |-> u, id |-> id, limit |-> limit,
                refOk |-> refOk, fetchOk |-> fetchOk] @@
               get_similar_images(images, metadata, u, id, limit, desc, refOk, fetchOk)
    /\ UNCHANGED <<blobs, images, metadata, nIngests, nFaults, nPatches, ing, tasks, bulk>>

\* The similar requests explored: every user, every id (one of them of no
\* image), both orders of the candidates, and the requests with a limit out
\* of range or a failing select.
SimilarRequests ==
    [user : Users, id : 1..(MaxItems + 1), limit : {1, 2}, desc : BOOLEAN,
     refOk : {TRUE}, fetchOk : {TRUE}]
    \cup
    [user : Users, id : {1}, limit : {0, 1, 51}, desc : {FALSE},
     refOk : BOOLEAN, fetchOk : BOOLEAN]

SimilarInit == Catalog({p \in Profiles : p.status # "pending"})

SimilarNext ==
    \/ \E r \in SimilarRequests :
         FindSimilar(r.user, r.id, r.limit, r.desc, r.refOk, r.fetchOk)
    \/ Done

SimilarSpec == SimilarInit /\ [][SimilarNext]_vars

----------------------------------------------------------------------------
(* The owner's requests with their responses *)

\* Number of delete requests that reach the record store.
MaxDeletes == 1

\* HTTP status of update_image_metadata, in the order of its checks.
update_image_metadata_status(imgs, u, id, fields, colorsValid, selOk, wrOk) ==
    IF fields = {} THEN 400
    ELSE IF ~selOk THEN 500
    ELSE IF ~\E i \in imgs : i.id = id /\ i.user_id = u THEN 404
    ELSE IF "colors" \in fields /\ ~colorsValid THEN 400
    ELSE IF ~wrOk THEN 500
    ELSE 200

\* PATCH /images/{image_id}
PatchRequest(u, id, fields, colorsValid, selOk, wrOk) ==
    /\ Idle
    /\ UpdateImageMetadata(u, id, fields, colorsValid, selOk, wrOk)
    /\ call' = [op |-> "patch", user |-> u, id |-> id, fields |-> fields,
                status |-> update_image_metadata_status(images, u, id, fields,
                                                        colorsValid, selOk, wrOk)]
    /\ UNCHANGED bulk

\* HTTP status of delete_image.
delete_image_status(imgs, u, id, selOk, delOk) ==
    IF ~selOk THEN 500
    ELSE IF ~\E i \in imgs : i.id = id /\ i.user_id = u THEN 404
    ELSE IF ~delOk THEN 500
    ELSE 200

\* DELETE /images/{image_id}
DeleteRequest(u, id, selOk, d1Ok, d2Ok, delOk) ==
    /\ Idle
    /\ Cardinality(images) + MaxDeletes > MaxItems
    /\ DeleteImage(u, id, selOk, d1Ok, d2Ok, delOk)
    /\ call' = [op |-> "delete", user |-> u, id |-> id,
                status |-> delete_image_status(images, u, id, selOk, delOk)]
    /\ UNCHANGED bulk

get_image_by_id_of_any_owner(imgs, meta, u, id) ==
    LET found == {i \in imgs : i.id = id} IN
      IF found = {}
      THEN [status |-> 404, items |-> <<>>, metadata |-> NoMeta]
      ELSE [status |-> 200, items |-> <<id>>,
            metadata |-> [f \in DOMAIN NoMeta |-> Embed(meta, id)[f]]]

\* get_image_by_id: the row selected by id and user_id, then the first
\* metadata row of the image.
get_image_by_id(imgs, meta, u, id) ==
    LET found == {i \in imgs : i.id = id /\ i.user_id = u} IN
      IF found = {}
      THEN [status |-> 404, items |-> <<>>, metadata |-> NoMeta]
      ELSE [status |-> 200, items |-> <<id>>,
            metadata |-> [f \in DOMAIN NoMeta |-> Embed(meta, id)[f]]]

\* GET /images/{image_id}
GetImage(u, id) ==
    /\ Idle
    /\ call' = [op |-> "fetch", user |-> u, id |-> id] @@
               get_image_by_id(images, metadata, u, id)
    /\ UNCHANGED <<blobs, images, metadata, nIngests, nFaults, nPatches, ing, tasks, bulk>>

\* Sizes of the answers of get_recent_tags and get_popular_colors.
RecentTagsLimit == 6
PopularColorsLimit == 8

\* The lists of the owner's images in the order of the fetch, concatenated.
RECURSIVE Concat(_)
Concat(lists) ==
    IF lists = <<>> THEN <<>> ELSE Head(lists) \o Concat(Tail(lists))

\* The elements of seq in the order of their first appearance.
RECURSIVE FirstSeen(_)
FirstSeen(seq) ==
    IF seq = <<>>
    THEN <<>>
    ELSE LET init == FirstSeen(SubSeq(seq, 1, Len(seq) - 1))
             x    == seq[Len(seq)]
         IN  IF x \in Range(init) THEN init ELSE Append(init, x)

get_recent_tags_first_six_scanned(imgs, meta, user_id) ==
    LET rows == OrderById({i.id : i \in {x \in imgs : x.user_id = user_id}}, TRUE)
        tags == Concat([k \in 1..Len(rows) |-> TagList(Embed(meta, rows[k]).tags)])
    IN  FirstSeen(SubSeq(tags, 1, IF Len(tags) < RecentTagsLimit THEN Len(tags)
                                                               ELSE RecentTagsLimit))

\* get_recent_tags: the owner's images newest first, each one's tags in their
\* stored order, the first six distinct tags.
get_recent_tags(imgs, meta, user_id) ==
    LET rows == OrderById({i.id : i \in {x \in imgs : x.user_id = user_id}}, TRUE)
        tags == FirstSeen(Concat([k \in 1..Len(rows) |->
                                    TagList(Embed(meta, rows[k]).tags)]))
    IN  SubSeq(tags, 1, IF Len(tags) < RecentTagsLimit THEN Len(tags) ELSE RecentTagsLimit)

\* GET /tags/recent
RecentTags(u) ==
    /\ Idle
    /\ call' = [op |-> "tags", user |-> u, status |-> 200,
                items |-> get_recent_tags(images, metadata, u)]
    /\ UNCHANGED <<blobs, images, metadata, nIngests, nFaults, nPatches, ing, tasks, bulk>>

\* Counter.most_common(n): by count, the largest first, equal counts in the
\* order of first appearance.
RECURSIVE most_common(_, _)
most_common(seq, distinct) ==
    IF distinct = <<>>
    THEN <<>>
    ELSE LET n     == Len(distinct)
             x     == distinct[n]
             count == Cardinality({k \in 1..Len(seq) : seq[k] = x})
             rest  == most_common(seq, SubSeq(distinct, 1, n - 1))
             cut   == Cardinality({k \in 1..Len(rest) : rest[k].count >= count})
         IN  SubSeq(rest, 1, cut) \o <<[color |-> x, count |-> count]>>
             \o SubSeq(rest, cut + 1, Len(rest))

get_popular_colors_first_eight_seen(imgs, meta, user_id, desc) ==
    LET rows   == OrderById({i.id : i \in {x \in imgs : x.user_id = user_id}}, desc)
        colors == Concat([k \in 1..Len(rows) |-> ColorList(Embed(meta, rows[k]).colors)])
        seen   == FirstSeen(colors)
        top    == [k \in 1..Len(seen) |->
                     [color |-> seen[k],
                      count |-> Cardinality({j \in 1..Len(colors) : colors[j] = seen[k]})]]
    IN  SubSeq(top, 1, IF Len(top) < PopularColorsLimit THEN Len(top)
                       ELSE PopularColorsLimit)

\* get_popular_colors: the colors of the owner's images counted, the eight
\* most frequent.  desc: the order in which the store returns the images (the
\* query has no order clause).
get_popular_colors(imgs, meta, user_id, desc) ==
    LET rows   == OrderById({i.id : i \in {x \in imgs : x.user_id = user_id}}, desc)
        colors == Concat([k \in 1..Len(rows) |-> ColorList(Embed(meta, rows[k]).colors)])
        top    == most_common(colors, FirstSeen(colors))
    IN  SubSeq(top, 1, IF Len(top) < PopularColorsLimit THEN Len(top)
                       ELSE PopularColorsLimit)

\* GET /colors/popular
PopularColors(u, desc) ==
    /\ Idle
    /\ call' = [op |-> "colors", user |-> u, desc |-> desc, status |-> 200,
                items |-> get_popular_colors(images, metadata, u, desc)]
    /\ UNCHANGED <<blobs, images, metadata, nIngests, nFaults, nPatches, ing, tasks, bulk>>

\* The owner's requests are explored over items whose metadata row is still
\* pending and items whose row was written by the enrichment.
OwnerInit ==
    Catalog({p \in Profiles : p.status # "none" /\ p.description \in {"null", "ai"}})

\* The stores answer every call of these requests (their failures are
\* explored by Next).
OwnerNext ==
    \/ \E u \in Users, id \in 1..MaxItems, fields \in PatchRequests,
          colorsValid \in BOOLEAN :
         PatchRequest(u, id, fields, colorsValid, TRUE, TRUE)
    \/ \E u \in Users, id \in 1..MaxItems :
         DeleteRequest(u, id, TRUE, TRUE, TRUE, TRUE)
    \/ \E u \in Users, id \in 1..MaxItems : GetImage(u, id)
    \/ \E u \in Users :
         ListItems(u, 2, 0, CHOOSE f \in ListFilters : f.search = "" /\ f.tags = <<>>
                                                       /\ f.colors = <<>>,
                   "recent", TRUE)
    \/ \E u \in Users, id \in 1..MaxItems : FindSimilar(u, id, 2, FALSE, TRUE, TRUE)
    \/ \E u \in Users : RecentTags(u)
    \/ \E u \in Users, desc \in BOOLEAN : PopularColors(u, desc)
    \/ Done

OwnerSpec == OwnerInit /\ [][OwnerNext]_vars

----------------------------------------------------------------------------
(* delete_image followed by the read requests *)

\* The unfiltered first page of MaxItems items, newest first.
ListAll(u) ==
    ListItems(u, MaxItems, 0,
              CHOOSE f \in ListFilters : f.search = "" /\ f.tags = <<>> /\ f.colors = <<>>,
              "recent", TRUE)

\* Deletes whose select, blob removes or row delete may fail, and the list,
\* fetch and similar requests of both users before and after them.
DeleteNext ==
    \/ \E u \in Users, id \in 1..MaxItems, selOk, d1Ok, d2Ok, delOk \in BOOLEAN :
         DeleteRequest(u, id, selOk, d1Ok, d2Ok, delOk)
    \/ \E u \in Users, id \in 1..MaxItems : GetImage(u, id)
    \/ \E u \in Users : ListAll(u)
    \/ \E u \in Users, id \in 1..MaxItems :
         FindSimilar(u, id, MaxItems, FALSE, TRUE, TRUE)
    \/ Done

DeleteSpec == OwnerInit /\ [][DeleteNext]_vars

----------------------------------------------------------------------------
(* get_recent_tags and get_popular_colors over enriched catalogues *)

\* Both summaries, asked by either user, over items without a metadata row,
\* with the provider's analysis, an owner's patch or the mock analysis.
SummaryNext ==
    \/ \E u \in Users : RecentTags(u)
    \/ \E u \in Users, desc \in BOOLEAN : PopularColors(u, desc)
    \/ Done

\* The enriched items and the items whose owner patched a five-color list.
SummaryProfiles ==
    {p \in Profiles : p.status # "pending"}
    \cup {[status |-> "completed", description |-> "ai", tags |-> "ai",
           colors |-> "palette", name |-> "ai"]}

SummaryInit == Catalog(SummaryProfiles)

SummarySpec == SummaryInit /\ [][SummaryNext]_vars

----------------------------------------------------------------------------

Init ==
    /\ blobs = {}
    /\ images = {}
    /\ metadata = {}
    /\ nIngests = 0
    /\ nFaults = 0
    /\ nPatches = 0
    /\ ing = IdleIngest
    /\ tasks = {}
    /\ bulk = NoBulk
    /\ call = NoCall

\* A failing select of the patch handler is explored for one request: the
\* handler answers 500 before it has read anything of the item.
Next ==
    \/ /\ \E u \in Users, f \in Files : IngestStart(u, f)
       /\ UNCHANGED <<bulk, call>>
    \/ Validate /\ UNCHANGED <<bulk, call>>
    \/ CreateThumbnail /\ UNCHANGED <<bulk, call>>
    \/ /\ \E ok \in BOOLEAN : UploadOriginal(ok)
       /\ UNCHANGED <<bulk, call>>
    \/ /\ \E ok \in BOOLEAN : UploadThumbnail(ok)
       /\ UNCHANGED <<bulk, call>>
    \/ /\ \E r \in {"insert_fails", "meta_fails", "ok"} : CreateImageRecord(r)
       /\ UNCHANGED <<bulk, call>>
    \/ /\ \E ok \in BOOLEAN : ScheduleTask(ok)
       /\ UNCHANGED <<bulk, call>>
    \/ Return /\ UNCHANGED <<bulk, call>>
    \/ /\ \E ok \in BOOLEAN : CleanupOriginal(ok)
       /\ UNCHANGED <<bulk, call>>
    \/ /\ \E ok \in BOOLEAN : CleanupThumbnail(ok)
       /\ UNCHANGED <<bulk, call>>
    \/ Respond /\ UNCHANGED <<bulk, call>>
    \/ /\ \E t \in tasks, p \in ProviderOutcomes,
             store \in {"ok", "select_fails", "write_fails"}, errIns \in BOOLEAN :
            Enrich(t, p, store, errIns)
       /\ UNCHANGED <<bulk, call>>
    \/ /\ \E u \in Users, id \in 1..MaxIngests, selOk, d1Ok, d2Ok, delOk \in BOOLEAN :
            DeleteImage(u, id, selOk, d1Ok, d2Ok, delOk)
       /\ UNCHANGED <<bulk, call>>
    \/ /\ \E u \in Users, id \in 1..MaxIngests, fields \in PatchRequests,
             colorsValid, selOk, wrOk \in BOOLEAN :
            /\ selOk \/ (u = "u1" /\ id = 1 /\ fields = PatchFields /\ colorsValid)
            /\ UpdateImageMetadata(u, id, fields, colorsValid, selOk, wrOk)
       /\ UNCHANGED <<bulk, call>>

Spec == Init /\ [][Next]_vars

----------------------------------------------------------------------------
(* upload_multiple_images: the bulk upload *)

\* Number of files in one bulk upload.
MaxBulk == 3

\* The file lists of the bulk uploads explored.
RECURSIVE FileLists(_)
FileLists(n) ==
    IF n = 0
    THEN {<<>>}
    ELSE FileLists(n - 1) \cup
         {Append(l, f) : l \in {x \in FileLists(n - 1) : Len(x) = n - 1}, f \in Files}

BulkAfterAbortOnError(outcome) == IF outcome = "error" THEN "returned" ELSE "loop"

\* Both except branches of the loop body append to "failed" and fall through
\* to the next iteration.
BulkAfter(outcome) == "loop"

\* results = {"successful": [], "failed": [], "total": len(files), ...}
BulkStart(u, files) ==
    /\ bulk.pc = "idle"
    /\ ing.pc = "idle"
    /\ bulk' = [pc |-> "loop", user |-> u, files |-> files, k |-> 0,
                successful |-> <<>>, failed |-> <<>>, total |-> Len(files),
                success_count |-> 0, failure_count |-> 0]
    /\ UNCHANGED <<blobs, images, metadata, nIngests, nFaults, nPatches, ing, tasks, call>>

\* for file in files: result = await process_image_upload(file, user_id)
BulkCall ==
    /\ bulk.pc = "loop"
    /\ bulk.k < Len(bulk.files)
    /\ ing.pc = "idle"
    /\ nIngests' = nIngests + 1
    /\ ing' = [IdleIngest EXCEPT !.pc = "validate", !.user = bulk.user,
                                 !.file = bulk.files[bulk.k + 1]]
    /\ bulk' = [bulk EXCEPT !.pc = "file", !.k = @ + 1]
    /\ UNCHANGED <<blobs, images, metadata, nFaults, nPatches, tasks, call>>

\* The call returned or raised: the entry goes to "successful" or "failed"
\* and the matching counter is incremented.
BulkCollect ==
    /\ bulk.pc = "file"
    /\ ing.pc \in {"ok", "error"}
    /\ bulk' = IF ing.pc = "ok"
               THEN [bulk EXCEPT !.pc = BulkAfter("ok"),
                                 !.successful = Append(@, [input |-> bulk.k,
                                                           id |-> ing.image_id]),
                                 !.success_count = @ + 1]
               ELSE [bulk EXCEPT !.pc = BulkAfter("error"),
                                 !.failed = Append(@, [input |-> bulk.k,
                                                       error |-> ing.err]),
                                 !.failure_count = @ + 1]
    /\ ing' = IdleIngest
    /\ UNCHANGED <<blobs, images, metadata, nIngests, nFaults, nPatches, tasks, call>>

\* return results
BulkReturn ==
    /\ bulk.pc = "loop"
    /\ bulk.k = Len(bulk.files)
    /\ bulk' = [bulk EXCEPT !.pc = "returned"]
    /\ UNCHANGED <<blobs, images, metadata, nIngests, nFaults, nPatches, ing, tasks, call>>

BulkNext ==
    \/ \E u \in Users, files \in FileLists(MaxBulk) \ {<<>>} : BulkStart(u, files)
    \/ BulkCall
    \/ Validate /\ UNCHANGED <<bulk, call>>
    \/ CreateThumbnail /\ UNCHANGED <<bulk, call>>
    \/ /\ \E ok \in BOOLEAN : UploadOriginal(ok)
       /\ UNCHANGED <<bulk, call>>
    \/ /\ \E ok \in BOOLEAN : UploadThumbnail(ok)
       /\ UNCHANGED <<bulk, call>>
    \/ /\ \E r \in {"insert_fails", "meta_fails", "ok"} : CreateImageRecord(r)
       /\ UNCHANGED <<bulk, call>>
    \/ /\ \E ok \in BOOLEAN : ScheduleTask(ok)
       /\ UNCHANGED <<bulk, call>>
    \/ Return /\ UNCHANGED <<bulk, call>>
    \/ /\ \E ok \in BOOLEAN : CleanupOriginal(ok)
       /\ UNCHANGED <<bulk, call>>
    \/ /\ \E ok \in BOOLEAN : CleanupThumbnail(ok)
       /\ UNCHANGED <<bulk, call>>
    \/ BulkCollect
    \/ BulkReturn

\* One bulk upload into the empty store.
BulkSpec == Init /\ [][BulkNext]_vars

----------------------------------------------------------------------------
(* validate_image_file, check by check *)

MAX_FILE_SIZE == 10485760

\* file.content_type and the answer of magic.from_buffer: None, the empty
\* string, and MIME types inside and outside image/*.
None == "None"

ContentTypes == {None, "", "image/png", "image/svg+xml", "text/plain", "imagex/raw"}

\* s.startswith('image/')
StartsWithImage(s) == s \in {"image/png", "image/svg+xml"}

\* bool(s) of an Optional[str]
Truthy(s) == s \notin {None, ""}

\* The uploads explored: len(contents), the Content-Type of the part, what
\* libmagic makes of the bytes, and whether Image.open + verify go through.
\* No bytes at all are no image and are reported as application/x-empty.
Uploads ==
    {f \in [size : {0, 1, MAX_FILE_SIZE, MAX_FILE_SIZE + 1},
            content_type : ContentTypes,
            sniffed : {"image/png", "text/plain", "application/x-empty"},
            verifies : BOOLEAN] :
       /\ f.size = 0 <=> f.sniffed = "application/x-empty"
       /\ f.size = 0 => ~f.verifies}

Accept == [accepted |-> TRUE, status |-> 200, reason |-> "none"]

Reject(status, reason) == [accepted |-> FALSE, status |-> status, reason |-> reason]

validate_image_file_trusting_header(file, MAGIC_AVAILABLE) ==
    IF file.size > MAX_FILE_SIZE
    THEN Reject(413, "too large")
    ELSE IF file.size = 0
    THEN Reject(400, "empty")
    ELSE IF Truthy(file.content_type) /\ ~StartsWithImage(file.content_type)
    THEN Reject(415, "invalid file type")
    ELSE IF MAGIC_AVAILABLE
    THEN IF Truthy(file.sniffed) /\ ~StartsWithImage(file.sniffed)
         THEN Reject(415, "content does not match")
         ELSE IF ~file.verifies
         THEN Reject(400, "invalid image")
         ELSE Accept
    ELSE Accept

\* validate_image_file: the HTTPException it raises, or acceptance.
validate_image_file_checks(file, MAGIC_AVAILABLE) ==
    IF file.size > MAX_FILE_SIZE
    THEN Reject(413, "too large")
    ELSE IF file.size = 0
    THEN Reject(400, "empty")
    ELSE IF Truthy(file.content_type) /\ ~StartsWithImage(file.content_type)
    THEN Reject(415, "invalid file type")
    ELSE IF MAGIC_AVAILABLE /\ Truthy(file.sniffed) /\ ~StartsWithImage(file.sniffed)
    THEN Reject(415, "content does not match")
    ELSE IF ~file.verifies
    THEN Reject(400, "invalid image")
    ELSE Accept

\* An upload waits to be validated, with python-magic importable or not.
ValidateInit ==
    /\ blobs = {} /\ images = {} /\ metadata = {} /\ tasks = {}
    /\ nIngests = 0 /\ nFaults = 0 /\ nPatches = 0
    /\ ing = IdleIngest
    /\ bulk = NoBulk
    /\ \E file \in Uploads, m \in BOOLEAN :
         call = [op |-> "upload", file |-> file, MAGIC_AVAILABLE |-> m]

ValidateFile ==
    /\ call.op = "upload"
    /\ call' = [op |-> "validate", file |-> call.file,
                MAGIC_AVAILABLE |-> call.MAGIC_AVAILABLE,
                result |-> validate_image_file_checks(call.file, call.MAGIC_AVAILABLE)]
    /\ UNCHANGED <<blobs, images, metadata, nIngests, nFaults, nPatches, ing, tasks, bulk>>

ValidateNext == ValidateFile

ValidateSpec == ValidateInit /\ [][ValidateNext]_vars

----------------------------------------------------------------------------
(* generate_filename_from_description, character by character *)

\* Length of the descriptions explored after their opening words.
MaxChars == 6

\* The default of max_length.
DefaultMaxLength == 50

\* A string is the sequence of its characters.
Chars(n, alphabet) == UNION {[1..k -> alphabet] : k \in 0..n}

\* str.lower()
str_lower(s) ==
    [k \in 1..Len(s) |-> CASE s[k] = "A" -> "a" [] s[k] = "B" -> "b" [] OTHER -> s[k]]

\* s.startswith(prefix)
startswith(s, prefix) ==
    Len(s) >= Len(prefix) /\ SubSeq(s, 1, Len(prefix)) = prefix

prefixes_to_remove ==
    << <<"a", "n", " ", "i", "m", "a", "g", "e", " ", "o", "f", " ">>,
       <<"a", " ", "p", "h", "o", "t", "o", " ", "o", "f", " ">>,
       <<"a", " ", "p", "i", "c", "t", "u", "r", "e", " ", "o", "f", " ">>,
       <<"t", "h", "i", "s", " ", "i", "s", " ">>,
       <<"t", "h", "i", "s", " ", "i", "m", "a", "g", "e", " ",
         "s", "h", "o", "w", "s", " ">>,
       <<"t", "h", "e", " ", "i", "m", "a", "g", "e", " ",
         "s", "h", "o", "w", "s", " ">> >>

\* The loop over prefixes_to_remove: the first prefix that matches is cut
\* off, once.
RECURSIVE remove_prefix(_, _)
remove_prefix(s, prefixes) ==
    IF prefixes = <<>> THEN s
    ELSE IF startswith(s, Head(prefixes))
    THEN SubSeq(s, Len(Head(prefixes)) + 1, Len(s))
    ELSE remove_prefix(s, Tail(prefixes))

\* The characters re.sub(r'[^\w\s-]', '', ...) keeps.
IsKept(c) == c \notin {".", "!"}

\* s.strip(chars)
RECURSIVE strip(_, _)
strip(s, chars) ==
    IF s = <<>> THEN s
    ELSE IF Head(s) \in chars THEN strip(Tail(s), chars)
    ELSE IF s[Len(s)] \in chars THEN strip(SubSeq(s, 1, Len(s) - 1), chars)
    ELSE s

\* re.sub(r'\s+', '-', s) and re.sub(r'-+', '-', s): every run of characters
\* of the class becomes one hyphen.
RECURSIVE sub_runs(_, _)
sub_runs(s, class) ==
    IF s = <<>> THEN <<>>
    ELSE IF Head(s) \in class
    THEN IF Len(s) > 1 /\ s[2] \in class
         THEN sub_runs(Tail(s), class)
         ELSE <<"-">> \o sub_runs(Tail(s), class)
    ELSE <<Head(s)>> \o sub_runs(Tail(s), class)

\* s.rfind('-') as a 0-based index, -1 when there is none.
rfind(s, c) ==
    IF \E k \in 1..Len(s) : s[k] = c
    THEN (CHOOSE k \in 1..Len(s) : s[k] = c /\ \A j \in (k + 1)..Len(s) : s[j] # c) - 1
    ELSE -1

\* The truncation at max_length, cut back to the last hyphen when that one
\* lies in the second half.
truncate(s, max_length) ==
    IF Len(s) > max_length
    THEN LET cut == SubSeq(s, 1, max_length)
             last_hyphen == rfind(cut, "-")
         IN  IF last_hyphen > max_length \div 2
             THEN SubSeq(cut, 1, last_hyphen)
             ELSE cut
    ELSE s

generate_filename_keeping_hyphens(description, max_length) ==
    LET lowered   == remove_prefix(str_lower(description), prefixes_to_remove)
        cleaned   == SelectSeq(lowered, IsKept)
        hyphened  == sub_runs(sub_runs(strip(cleaned, {" "}), {" "}), {"-"})
        truncated == truncate(hyphened, max_length)
    IN  IF truncated = <<>> THEN <<"i", "m", "a", "g", "e">> ELSE truncated

generate_filename_from_description(description, max_length) ==
    LET lowered   == remove_prefix(str_lower(description), prefixes_to_remove)
        cleaned   == SelectSeq(lowered, IsKept)
        hyphened  == sub_runs(sub_runs(strip(cleaned, {" "}), {" "}), {"-"})
        truncated == truncate(hyphened, max_length)
        stripped  == strip(truncated, {"-"})
    IN  IF stripped = <<>> THEN <<"i", "m", "a", "g", "e">> ELSE stripped

\* The descriptions explored: nothing, one of the listed openings in the
\* provider's capitalisation, or an opening that is not listed, followed by
\* up to MaxChars letters, spaces, hyphens and punctuation marks.
Openings ==
    {<<>>,
     <<"A", "n", " ", "i", "m", "a", "g", "e", " ", "o", "f", " ">>,
     <<"t", "h", "i", "s", " ", "i", "s", " ">>,
     <<"a", " ">>}

\* max_length: the default, and a length short enough for the descriptions
\* explored to exceed it (not shorter than the name of a description with
\* nothing left).
MaxLengths == {5, DefaultMaxLength}

NameInit ==
    /\ blobs = {} /\ images = {} /\ metadata = {} /\ tasks = {}
    /\ nIngests = 0 /\ nFaults = 0 /\ nPatches = 0
    /\ ing = IdleIngest
    /\ bulk = NoBulk
    /\ \E o \in Openings, d \in Chars(MaxChars, {"a", "B", " ", "-", "."}),
          n \in MaxLengths :
         call = [op |-> "describe", description |-> o \o d, max_length |-> n]

GenerateFilename ==
    /\ call.op = "describe"
    /\ call' = [op |-> "name", description |-> call.description,
                max_length |-> call.max_length,
                name |-> generate_filename_from_description(call.description,
                                                            call.max_length)]
    /\ UNCHANGED <<blobs, images, metadata, nIngests, nFaults, nPatches, ing, tasks, bulk>>

NameNext == GenerateFilename

NameSpec == NameInit /\ [][NameNext]_vars

----------------------------------------------------------------------------
(* upload_to_storage: the path of a blob *)

\* Length of the filenames explored.
MaxNameChars == 3

\* file.filename of an upload, as the sequence of its characters.
ClientFilenames == Chars(MaxNameChars, {"a", "B", "."}) \ {<<>>}

\* filename.split('.')[-1]: what follows the last dot, the whole name when
\* it has no dot.
file_extension_of_split(s) ==
    LET last == rfind(s, ".") IN SubSeq(s, last + 2, Len(s))

\* file_extension = filename.lower().split('.')[-1]
file_extension(name) == file_extension_of_split(str_lower(name))

\* storage_path = f"{user_id}/{folder}/{uuid}.{file_extension}"
storage_path(user_id, folder, uid, name) ==
    [owner |-> user_id, folder |-> folder, uid |-> uid, ext |-> file_extension(name)]

\* The paths process_image_upload stores the n-th upload under.
upload_paths(user_id, n, name) ==
    [original  |-> storage_path(user_id, "original", uuid4(n, "original"), name),
     thumbnail |-> storage_path(user_id, "thumbnail", uuid4(n, "thumbnail"), name)]

\* Two uploads of the same bytes by one owner wait to be stored.
PathInit ==
    /\ blobs = {} /\ images = {} /\ metadata = {} /\ tasks = {}
    /\ nIngests = 0 /\ nFaults = 0 /\ nPatches = 0
    /\ ing = IdleIngest
    /\ bulk = NoBulk
    /\ \E u \in Users, f1, f2 \in ClientFilenames :
         call = [op |-> "uploads", user |-> u, filenames |-> <<f1, f2>>]

StoreBoth ==
    /\ call.op = "uploads"
    /\ call' = [op |-> "stored", user |-> call.user, filenames |-> call.filenames,
                paths |-> [n \in 1..2 |-> upload_paths(call.user, n, call.filenames[n])]]
    /\ UNCHANGED <<blobs, images, metadata, nIngests, nFaults, nPatches, ing, tasks, bulk>>

PathNext == StoreBoth

PathSpec == PathInit /\ [][PathNext]_vars

----------------------------------------------------------------------------
(* Properties of ingestion and enrichment *)

ThisIngestPaths == {ing.original_path, ing.thumbnail_path} \ {NoPath}

SameRow(r0, r) == r0.image_id = r.image_id /\ r0.ord = r.ord

\* C1: when an ingest ends in an error after writing at least one blob, a
\* delete has been issued for every blob it wrote before the error reaches
\* the caller, and a blob of this ingest is still stored only if its delete
\* failed.
C1_CompensationBeforeError ==
    (ing.pc = "error" /\ ing.puts # {}) =>
        /\ ing.puts \subseteq ing.delIssued
        /\ \A b \in ing.puts : b \in blobs => b \in ing.delFailed

C1_Witness ==
    /\ ing.pc = "error"
    /\ ing.err = "record"
    /\ Cardinality(ing.puts) = 2
    /\ ing.puts \cap blobs = {}

\* C2: an upload the validator or the thumbnail generator rejects ends in
\* that step's error with no blob put, no blob delete, no row inserted and no
\* enrichment task created.
C2_RejectionWritesNothing ==
    (ing.pc = "error" /\ (ing.file # "good" \/ ing.err \in {"validation", "thumbnail"})) =>
        /\ ing.err = IF validate_image_file(ing.file) THEN "thumbnail" ELSE "validation"
        /\ ing.puts = {} /\ ing.delIssued = {}
        /\ ing.image_id = 0 /\ ~ing.scheduled
        /\ \A i \in images : i.id # nIngests
        /\ \A r \in metadata : r.image_id # nIngests
        /\ \A t \in tasks : t.image_id # nIngests
        /\ \A b \in blobs : b.uid \notin {uuid4(nIngests, "original"),
                                          uuid4(nIngests, "thumbnail")}

C2_Witness ==
    /\ ing.pc = "error"
    /\ ing.err = "thumbnail"
    /\ ing.file = "truncated"

\* C3: every row of the images table has a non-empty original path and a
\* non-empty thumbnail path, and right after the insert both blobs of the
\* ingest are in the blob store.
C3_RecordHasBothRefs ==
    /\ \A i \in images : i.original_path # NoPath /\ i.thumbnail_path # NoPath
    /\ ing.pc = "schedule" =>
         /\ Cardinality(ing.puts) = 2
         /\ ing.puts = {ing.original_path, ing.thumbnail_path}
         /\ ing.puts \subseteq blobs

C3_Witness ==
    /\ ing.pc = "schedule"
    /\ \E i \in images : i.id = ing.image_id /\ i.original_path \in blobs
                         /\ i.thumbnail_path \in blobs

\* C4: the metadata row created with a new image is 'pending'; the status of
\* a row changes only from 'pending' and only to 'completed' or 'failed', so
\* it changes at most once and never returns to 'pending'.
C4_StatusMovesOnce ==
    [][ /\ \A r \in metadata' :
             (\A i \in images : i.id # r.image_id) => r.status = "pending"
        /\ \A r0 \in metadata, r \in metadata' :
             (SameRow(r0, r) /\ r.status # r0.status) =>
                 (r0.status = "pending" /\ r.status \in {"completed", "failed"})
      ]_vars

C4_Witness ==
    \E r \in metadata : r.status = "completed" /\ r.description = "owner"

\* C5: an error inside enrichment (the provider call raising, the select or
\* the write of the metadata failing) leaves the ingest call as it was and
\* leaves the existing metadata row of the image with status 'failed'.
C5_EnrichmentErrorMarksRowFailed ==
    [][ \A t \in tasks \ tasks', p \in ProviderOutcomes,
           store \in {"ok", "select_fails", "write_fails"}, errIns \in BOOLEAN :
          ( /\ Enrich(t, p, store, errIns)
            /\ (p = "raises" \/ store # "ok")
            /\ RowsOf(metadata, t.image_id) # {} ) =>
              /\ ing' = ing
              /\ \A r0 \in RowsOf(metadata, t.image_id) :
                   \E r \in metadata' : SameRow(r0, r) /\ r.status = "failed"
      ]_vars

\* C6: no image has more than one metadata row.
C6_AtMostOneMetadataRow ==
    \A i \in images : Cardinality(RowsOf(metadata, i.id)) <= 1

MockContent(r) ==
    /\ r.tags = "mock" /\ r.description = "mock" /\ r.colors = "local"
    /\ r.status = "completed"

FailedContent(r) ==
    /\ r.tags = "error" /\ r.description = "error" /\ r.colors = "black"
    /\ r.status = "failed"

C8_PendingAtReturn ==
    ing.pc = "ok" =>
        /\ Cardinality(RowsOf(metadata, ing.image_id)) = 1
        /\ \A r \in RowsOf(metadata, ing.image_id) : r.status = "pending"
        /\ ing.scheduled =>
             \E t \in tasks : t.image_id = ing.image_id /\ t.user_id = ing.user

C8_Witness ==
    /\ ing.pc = "ok"
    /\ ing.scheduled
    /\ \E r \in metadata : r.image_id = ing.image_id /\ r.status = "pending"

\* C9: when creating the enrichment task fails, the ingest goes on to return
\* success with both blobs and the record kept and no compensation; the row
\* is 'pending', no task exists for the image, and a status changes only in
\* a step that runs a task of that image.
C9_ScheduleFailureKeepsUpload ==
    [][ /\ (ing.pc = "schedule" /\ tasks' = tasks) =>
             (ing'.pc = "return" /\ ~ing'.scheduled /\ ing'.err = "none")
        /\ (ing'.pc = "ok" /\ ~ing'.scheduled) =>
             /\ ing'.err = "none" /\ ing'.delIssued = {}
             /\ ThisIngestPaths' \subseteq blobs' /\ Cardinality(ThisIngestPaths') = 2
             /\ \E i \in images' : /\ i.id = ing'.image_id
                                   /\ i.original_path = ing'.original_path
                                   /\ i.thumbnail_path = ing'.thumbnail_path
             /\ RowsOf(metadata', ing'.image_id) # {}
             /\ \A r \in RowsOf(metadata', ing'.image_id) : r.status = "pending"
             /\ \A t \in tasks' : t.image_id # ing'.image_id
        /\ \A t \in tasks' \ tasks : ing'.scheduled /\ t.image_id = ing'.image_id
        /\ \A r0 \in metadata, r \in metadata' :
             (SameRow(r0, r) /\ r.status # r0.status) =>
                 \E t \in tasks \ tasks' : t.image_id = r.image_id
      ]_vars

C9_Witness ==
    /\ ing.pc = "ok"
    /\ ~ing.scheduled
    /\ ThisIngestPaths \subseteq blobs

\* C10: when a compensating delete fails, the caller still gets the error of
\* the step that failed, and a delete has been issued for every blob the
\* ingest wrote.
C10_DeleteFailureNotRaised ==
    (ing.pc = "error" /\ ing.delFailed # {}) =>
        /\ ing.err \in {"upload_thumbnail", "record"}
        /\ ThisIngestPaths \subseteq ing.delIssued

C10_Witness ==
    /\ ing.pc = "error"
    /\ ing.err = "record"
    /\ ing.original_path \in ing.delFailed
    /\ ing.thumbnail_path \in ing.delIssued

----------------------------------------------------------------------------
(* Claims about the owner's requests and the read requests *)

\* The value of a field of metadata row r after a patch that supplies `fields`.
Patched(r, field, fields) == IF field \in fields THEN "owner" ELSE r[field]

\* C11: a metadata patch overwrites exactly the fields it supplies on the
\* existing rows of the item, leaves the other fields, the status and the
\* generated name as they were, touches no other row, image or blob, and a
\* patch that supplies no field is answered 400 with nothing changed.
C11_PatchWritesSuppliedFieldsOnly ==
    [][ (Idle /\ call'.op = "patch") =>
          LET id == call'.id
              fields == call'.fields
          IN  /\ images' = images /\ blobs' = blobs
              /\ \A r \in metadata : r.image_id # id => r \in metadata'
              /\ \A q \in metadata' : q.image_id # id => q \in metadata
              /\ fields = {} => (call'.status = 400 /\ metadata' = metadata)
              /\ call'.status # 200 => metadata' = metadata
              /\ (call'.status = 200 /\ RowsOf(metadata, id) # {}) =>
                   /\ Cardinality(RowsOf(metadata', id)) = Cardinality(RowsOf(metadata, id))
                   /\ \A r \in RowsOf(metadata, id) :
                        \E q \in RowsOf(metadata', id) :
                          /\ q.ord = r.ord
                          /\ q.status = r.status /\ q.name = r.name
                          /\ q.description = Patched(r, "description", fields)
                          /\ q.tags = Patched(r, "tags", fields)
                          /\ q.colors = Patched(r, "colors", fields)
      ]_vars

C11_Witness ==
    /\ call.op = "patch" /\ call.status = 200 /\ call.fields = {"description"}
    /\ \E r \in RowsOf(metadata, call.id) :
         /\ r.description = "owner" /\ r.tags = "ai" /\ r.colors = "ai"
         /\ r.status = "completed" /\ r.name = "ai"

\* The inputs (positions in the file list) named by a result list.
InputsOf(list) == {list[k].input : k \in 1..Len(list)}

\* C12: in a bulk upload the counters equal the lengths of the two result
\* lists; the record and both blobs of every input reported successful stay
\* in place whatever happens to the later inputs; and when the call returns,
\* every input is in exactly one of the lists, once, so that
\* success_count + failure_count = total = N.
C12_BulkOutcomePerInput ==
    bulk.pc # "idle" =>
        /\ bulk.success_count = Len(bulk.successful)
        /\ bulk.failure_count = Len(bulk.failed)
        /\ bulk.total = Len(bulk.files)
        /\ \A k \in 1..Len(bulk.successful) :
             /\ bulk.files[bulk.successful[k].input] = "good"
             /\ \E i \in images :
                  /\ i.id = bulk.successful[k].id
                  /\ i.user_id = bulk.user
                  /\ {i.original_path, i.thumbnail_path} \subseteq blobs
        /\ bulk.pc = "returned" =>
             /\ InputsOf(bulk.successful) \cup InputsOf(bulk.failed) = 1..Len(bulk.files)
             /\ InputsOf(bulk.successful) \cap InputsOf(bulk.failed) = {}
             /\ Cardinality(InputsOf(bulk.successful)) = Len(bulk.successful)
             /\ Cardinality(InputsOf(bulk.failed)) = Len(bulk.failed)
             /\ bulk.success_count + bulk.failure_count = bulk.total

C12_Witness ==
    /\ bulk.pc = "returned"
    /\ bulk.files = <<"good", "notimage", "good">>
    /\ bulk.success_count = 2 /\ bulk.failure_count = 1
    /\ InputsOf(bulk.successful) = {1, 3}
    /\ Cardinality(images) = 2

\* What list_items is specified to return: the owner's items that pass the
\* filters, counted, ordered, and only then cut to the page.
FilterSortThenPage(imgs, meta, user_id, limit, offset, search, tags, colors, sort_by) ==
    LET own      == {i.id : i \in {x \in imgs : x.user_id = user_id}}
        rows     == OrderById(own, sort_by # "oldest")
        flat     == [k \in 1..Len(rows) |-> Flatten(imgs, meta, rows[k])]
        byTags   == IF tags # <<>>
                    THEN SelectSeq(flat, LAMBDA img : HasAllTags(img, tags)) ELSE flat
        byColors == IF colors # <<>>
                    THEN SelectSeq(byTags, LAMBDA img : HasAllColors(img, colors))
                    ELSE byTags
        filtered == IF search # ""
                    THEN SelectSeq(byColors, LAMBDA img : MatchesSearch(img, search))
                    ELSE byColors
        ordered  == IF sort_by = "a-z" THEN sorted(filtered, FALSE)
                    ELSE IF sort_by = "z-a" THEN sorted(filtered, TRUE)
                    ELSE filtered
    IN  [images |-> RangeOf(ordered, offset, limit), total |-> Len(filtered)]

DisplayKeys(imgs, meta, ids) ==
    [k \in 1..Len(ids) |-> lower(display_name(Flatten(imgs, meta, ids[k])))]

\* C13: the total of a list response is the number of the owner's items that
\* pass the requested filters, whatever the limit and the offset.
C13_TotalIsFilteredCount ==
    (call.op = "list" /\ call.status = 200) =>
        call.total = FilterSortThenPage(images, metadata, call.user, call.limit, call.offset,
                                        call.search, call.tags, call.colors,
                                        call.sort_by).total

\* C14: for a-z and z-a the display names of the returned items are those at
\* positions offset .. offset+limit-1 of the owner's filtered items ordered by
\* lower-cased display name.
C14_PageOfSortedItems ==
    (call.op = "list" /\ call.status = 200 /\ call.sort_by \in {"a-z", "z-a"}) =>
        DisplayKeys(images, metadata, call.items) =
        DisplayKeys(images, metadata,
                    Ids(FilterSortThenPage(images, metadata, call.user, call.limit,
                                           call.offset, call.search, call.tags,
                                           call.colors, call.sort_by).images))

\* C15: with a tags (colors) filter every returned item is the caller's and
\* its tag (color) list holds every requested tag (color); an item without
\* metadata or with only some of them is not returned.
C15_FiltersAreConjunctive ==
    (call.op = "list" /\ call.status = 200) =>
        \A k \in 1..Len(call.items) :
          LET img == Flatten(images, metadata, call.items[k]) IN
            /\ img.user_id = call.user
            /\ Range(call.tags) \subseteq Range(img.tags)
            /\ Range(call.colors) \subseteq Range(img.colors)
            /\ (call.tags # <<>> \/ call.colors # <<>>) =>
                   RowsOf(metadata, call.items[k]) # {}

C15_Witness ==
    /\ call.op = "list" /\ call.status = 200
    /\ call.tags = <<"beach", "sunset">>
    /\ call.limit = 2 /\ call.offset = 0
    /\ Len(call.items) = 1
    /\ \E i \in images :
         /\ i.user_id = call.user
         /\ i.id \notin Range(call.items)
         /\ "beach" \in Range(Flatten(images, metadata, i.id).tags)

\* C16: a list request whose limit is outside [1,100], whose offset is
\* negative or whose sort_by is not one of the four options is answered 400
\* without the fetch being made and without any item.
C16_BadListArgumentRejected ==
    (/\ call.op = "list"
     /\ \/ call.limit < 1 \/ call.limit > 100
        \/ call.offset < 0
        \/ call.sort_by \notin {"recent", "oldest", "a-z", "z-a"}) =>
        /\ call.status = 400
        /\ ~call.fetched
        /\ call.items = <<>>

C16_Witness ==
    /\ call.op = "list"
    /\ call.limit = 101 /\ call.offset = 0 /\ call.sort_by = "recent"
    /\ ~call.fetchOk
    /\ call.status = 400

\* The magnitude of an integer.
Abs(x) == IF x < 0 THEN -x ELSE x

\* |ref /\ cand| and |ref| (1 for an empty ref, where the overlap is 0) for
\* the tags, colors and description keywords of reference r and candidate c.
Shared(r, c) ==
    LET rt == Range(r.tags)
        rc == Range(r.colors)
        rk == Keywords(r.description)
    IN  [mt |-> Cardinality(rt \cap Range(c.tags)),
         mc |-> Cardinality(rc \cap Range(c.colors)),
         mk |-> Cardinality(rk \cap Keywords(c.description)),
         nt |-> IF rt = {} THEN 1 ELSE Cardinality(rt),
         nc |-> IF rc = {} THEN 1 ELSE Cardinality(rc),
         nk |-> IF rk = {} THEN 1 ELSE Cardinality(rk)]

\* C17: the score reported for a candidate is 0.5*T + 0.3*C + 0.2*K to one
\* decimal, with T, C, K = 100 * |ref /\ cand| / |ref| over tags, colors and
\* keywords (0 for an empty reference set): in tenths, score/10 is within
\* 0.05 of the weighted sum.  One of two reference tags shared and nothing
\* else gives 25.0; full overlap on three non-empty reference sets gives 100.0.
C17_WeightedOverlapOfReference ==
    (call.op = "similar" /\ call.status = 200) =>
        \A k \in 1..Len(call.items) :
          LET s == Shared(Flatten(images, metadata, call.id),
                          Flatten(images, metadata, call.items[k].id))
              den == s.nt * s.nc * s.nk
              num == 50 * 100 * s.mt * s.nc * s.nk + 30 * 100 * s.mc * s.nt * s.nk
                     + 20 * 100 * s.mk * s.nt * s.nc
          IN  /\ 2 * Abs(num - 10 * call.items[k].score * den) <= 10 * den
              /\ (s.nt = 2 /\ s.mt = 1 /\ s.mc = 0 /\ s.mk = 0) =>
                     call.items[k].score = 250
              /\ (s.mt = s.nt /\ s.mc = s.nc /\ s.mk = s.nk) =>
                     call.items[k].score = 1000

C17_Witness ==
    /\ call.op = "similar" /\ call.status = 200
    /\ \E k \in 1..Len(call.items) :
         LET s == Shared(Flatten(images, metadata, call.id),
                         Flatten(images, metadata, call.items[k].id))
         IN  /\ s.nt = 2 /\ s.mt = 1 /\ s.mc = 0 /\ s.mk = 0
             /\ call.items[k].score = 250

\* The score get_similar_images reports for candidate id of reference ref,
\* and whether its composite is above 0.
ScoreOf(ref, id) ==
    round1(similarity_percentage(Flatten(images, metadata, ref),
                                 Flatten(images, metadata, id)))

Positive(ref, id) ==
    LET s == Shared(Flatten(images, metadata, ref), Flatten(images, metadata, id))
    IN  s.mt + s.mc + s.mk > 0

C19_ReferenceMustBeCallers ==
    call.op = "similar" =>
        /\ (/\ call.limit \in 1..50
            /\ call.refOk
            /\ \E i \in images : i.id = call.id /\ i.user_id # call.user) =>
               /\ call.status = 403
               /\ ~call.fetched
               /\ call.items = <<>>
        /\ call.status = 200 =>
             \A k \in 1..Len(call.items) :
               /\ call.items[k].id # call.id
               /\ \E i \in images : i.id = call.items[k].id /\ i.user_id = call.user

C19_Witness ==
    /\ call.op = "similar"
    /\ call.user = "u2" /\ call.id = 1 /\ call.limit = 1
    /\ call.refOk /\ ~call.fetchOk
    /\ call.status = 403

\* The images of user u and the metadata rows of those images.
ImagesOf(u) == {i \in images : i.user_id = u}

MetadataOf(u) == {r \in metadata : \E i \in ImagesOf(u) : i.id = r.image_id}

\* The request was aimed at an item of another owner.
AimedAtForeignItem(c) == \E i \in images : i.id = c.id /\ i.user_id # c.user

\* C20: a request of owner A changes no image, metadata row or blob of
\* another owner; what list, single fetch, recent tags and popular colors
\* return is what they return when the store holds A's items only; similar
\* returns A's items only and nothing for a foreign reference; a fetch, a
\* delete or a (non-empty) patch aimed at another owner's item is answered
\* 404 and leaves the stores as they were.
C20_OwnerScope ==
    [][ (Idle /\ call'.op # "none") =>
          LET c == call'
              u == c.user
          IN  /\ {i \in images' : i.user_id # u} = {i \in images : i.user_id # u}
              /\ {b \in blobs' : b.owner # u} = {b \in blobs : b.owner # u}
              /\ \A r \in metadata \cup metadata' :
                   (\E i \in images : i.id = r.image_id /\ i.user_id # u) =>
                       r \in metadata \cap metadata'
              /\ c.op = "list" =>
                   LET own == get_images(ImagesOf(u), MetadataOf(u), u, c.limit, c.offset,
                                         c.search, c.tags, c.colors, c.sort_by, c.fetchOk)
                   IN  c.items = own.items /\ c.total = own.total /\ c.status = own.status
              /\ c.op = "fetch" =>
                   LET own == get_image_by_id(ImagesOf(u), MetadataOf(u), u, c.id)
                   IN  c.items = own.items /\ c.metadata = own.metadata
                       /\ c.status = own.status
              /\ c.op = "tags" => c.items = get_recent_tags(ImagesOf(u), MetadataOf(u), u)
              /\ c.op = "colors" =>
                   c.items = get_popular_colors(ImagesOf(u), MetadataOf(u), u, c.desc)
              /\ c.op = "similar" =>
                   /\ \A k \in 1..Len(c.items) :
                        \E i \in ImagesOf(u) : i.id = c.items[k].id
                   /\ AimedAtForeignItem(c) => (c.items = <<>> /\ c.status # 200)
              /\ (c.op \in {"fetch", "delete", "patch"} /\ AimedAtForeignItem(c)) =>
                   /\ c.status = IF c.op = "patch" /\ c.fields = {} THEN 400 ELSE 404
                   /\ UNCHANGED <<images, metadata, blobs>>
      ]_vars

C20_Witness ==
    /\ call.op = "delete" /\ call.user = "u2" /\ call.status = 404
    /\ \E i \in images :
         /\ i.id = call.id /\ i.user_id = "u1"
         /\ {i.original_path, i.thumbnail_path} \subseteq blobs
         /\ RowsOf(metadata, i.id) # {}

----------------------------------------------------------------------------
(* Claims about delete, the tag and color summaries, validation, names,   *)
(* blob paths and the scheduling of the enrichment                        *)

\* The ids of the items a list, fetch or similar response returns.
ReturnedIds(c) ==
    IF c.op = "similar"
    THEN {c.items[k].id : k \in 1..Len(c.items)}
    ELSE Range(c.items)

\* C21: a delete answered 200 was requested by the owner of an existing item,
\* has called remove for the original and for the thumbnail blob (a blob of
\* the item that is still stored is one whose remove failed), and has
\* removed the images row and every metadata row of the item and nothing
\* else; no images row ever comes back, and every list, fetch and similar
\* response returns only items whose images row is in the store.
C21_SuccessfulDeleteRemovesItem ==
    [][ /\ images' \subseteq images
        /\ (Idle /\ call'.op = "delete" /\ call'.status = 200) =>
             \E i \in images :
               /\ i.id = call'.id /\ i.user_id = call'.user
               /\ images' = images \ {i}
               /\ metadata' = metadata \ RowsOf(metadata, i.id)
               /\ RowsOf(metadata', i.id) = {}
               /\ blobs' \subseteq blobs
               /\ blobs \ blobs' \subseteq {i.original_path, i.thumbnail_path}
               /\ Cardinality({i.original_path, i.thumbnail_path} \cap blobs')
                    <= nFaults' - nFaults
        /\ (Idle /\ call'.op \in {"list", "fetch", "similar"}) =>
             ReturnedIds(call') \subseteq {i.id : i \in images'}
      ]_vars

\* A delete answered 200 whose remove of one blob failed.
C21_Witness ==
    /\ call.op = "delete" /\ call.status = 200
    /\ ~\E i \in images : i.id = call.id
    /\ nFaults = 1
    /\ Cardinality(blobs) = 2 * MaxItems - 1

\* The tags of the owner's items in the order get_recent_tags reads them:
\* items newest first, each item's tags in their stored order.
TagScan(u) ==
    LET rows == OrderById({i.id : i \in ImagesOf(u)}, TRUE)
    IN  Concat([k \in 1..Len(rows) |-> TagList(Embed(metadata, rows[k]).tags)])

\* Position of the first appearance of x in seq.
FirstPos(seq, x) ==
    CHOOSE k \in 1..Len(seq) : seq[k] = x /\ \A j \in 1..(k - 1) : seq[j] # x

\* C22: recent tags returns at most 6 tags of the scan, none of them twice,
\* in the order of their first appearance in the scan, and a tag of the scan
\* is left out only when 6 tags that appear earlier were returned.
C22_RecentTagsFirstSixDistinct ==
    call.op = "tags" =>
      LET scan == TagScan(call.user)
          r    == call.items
      IN  /\ Len(r) <= 6
          /\ Range(r) \subseteq Range(scan)
          /\ \A a, b \in 1..Len(r) :
               a < b => FirstPos(scan, r[a]) < FirstPos(scan, r[b])
          /\ \A x \in Range(scan) \ Range(r) :
               /\ Len(r) = 6
               /\ \A k \in 1..Len(r) : FirstPos(scan, r[k]) < FirstPos(scan, x)

\* The owner's newest item carries three tags and an older one six others:
\* three of the older item's tags are returned, three are left out.
C22_Witness ==
    /\ call.op = "tags"
    /\ Len(call.items) = 6
    /\ call.items[1] = "beach" /\ call.items[4] = "photograph"
    /\ Cardinality(Range(TagScan(call.user))) > 6

\* The colors of the owner's items in the order get_popular_colors counts
\* them: items in the order of the fetch, each item's colors in stored order.
ColorScan(u, desc) ==
    LET rows == OrderById({i.id : i \in ImagesOf(u)}, desc)
    IN  Concat([k \in 1..Len(rows) |-> ColorList(Embed(metadata, rows[k]).colors)])

Occurrences(seq, x) == Cardinality({k \in 1..Len(seq) : seq[k] = x})

\* C23: popular colors returns at most 8 entries, each a color of the
\* owner's items with the number of its occurrences, no color twice, by
\* non-increasing count and, for equal counts, in the order in which the
\* fetch first shows them; a color is left out only when 8 colors with at
\* least its count were returned.
C23_PopularColorsTopEight ==
    call.op = "colors" =>
      LET scan == ColorScan(call.user, call.desc)
          r    == call.items
      IN  /\ Len(r) <= 8
          /\ \A k \in 1..Len(r) :
               /\ r[k].color \in Range(scan)
               /\ r[k].count = Occurrences(scan, r[k].color)
          /\ \A a, b \in 1..Len(r) :
               a < b =>
                 /\ r[a].color # r[b].color
                 /\ r[a].count >= r[b].count
                 /\ r[a].count = r[b].count =>
                      FirstPos(scan, r[a].color) < FirstPos(scan, r[b].color)
          /\ \A x \in Range(scan) \ {r[k].color : k \in 1..Len(r)} :
               /\ Len(r) = 8
               /\ \A k \in 1..Len(r) : Occurrences(scan, x) <= r[k].count

\* Nine colors, two of them on two items: the two lead, and a color seen
\* once is left out.
C23_Witness ==
    /\ call.op = "colors"
    /\ Len(call.items) = 8
    /\ Cardinality(Range(ColorScan(call.user, call.desc))) = 9
    /\ call.items[1].count = 2 /\ call.items[2].count = 2 /\ call.items[3].count = 1
    /\ FirstPos(ColorScan(call.user, call.desc), call.items[1].color) > 1

\* The checks of the validator in their order, as predicates of the upload;
\* a content type that is None or empty counts as absent.
NonEmpty(f) == f.size > 0

WithinSize(f) == f.size <= MAX_FILE_SIZE

DeclaredImage(f) == f.content_type \in {None, ""} \/ StartsWithImage(f.content_type)

SniffedImage(f, m) == m => StartsWithImage(f.sniffed)

\* The reason of the first check that fails, in the order of the checks.
FirstFailing(f, m) ==
    IF ~NonEmpty(f) THEN "empty"
    ELSE IF ~WithinSize(f) THEN "too large"
    ELSE IF ~DeclaredImage(f) THEN "invalid file type"
    ELSE IF ~SniffedImage(f, m) THEN "content does not match"
    ELSE IF ~f.verifies THEN "invalid image"
    ELSE "none"

C25_DerivedNameIsStable ==
    call.op = "name" =>
      LET n == call.name
          m == call.max_length
          rest == remove_prefix(str_lower(call.description), prefixes_to_remove)
      IN  /\ generate_filename_from_description(n, m) = n
          /\ n # <<>>
          /\ (\A k \in 1..Len(rest) : rest[k] \in {" ", "-", ".", "!"}) =>
               n = <<"i", "m", "a", "g", "e">>
          /\ Len(n) <= m
          /\ n[1] # "-" /\ n[Len(n)] # "-"
          /\ \A k \in 1..(Len(n) - 1) : ~(n[k] = "-" /\ n[k + 1] = "-")

\* "this is aaa Ba" with max_length 5: the opening is removed, the rest is
\* cut to "aaa-b" and then back to the last hyphen.
C25_Witness ==
    /\ call.op = "name"
    /\ call.max_length = 5
    /\ call.description = <<"t", "h", "i", "s", " ", "i", "s", " ",
                            "a", "a", "a", " ", "B", "a">>
    /\ call.name = <<"a", "a", "a">>

\* C26: the path of a blob holds the owner, the folder and a fresh unique
\* identifier and nothing of the client's filename: the paths of two uploads
\* by one owner that differ in their filename only differ in the identifier
\* only, and the four blobs have four different paths.
C26_PathIndependentOfFilename ==
    call.op = "stored" =>
      LET p == call.paths IN
        /\ \A folder \in {"original", "thumbnail"} :
             [p[1][folder] EXCEPT !.uid = 0] = [p[2][folder] EXCEPT !.uid = 0]
        /\ Cardinality({p[1].original, p[1].thumbnail,
                        p[2].original, p[2].thumbnail}) = 4

\* C27: when an ingest ends in an error, the record store holds no images
\* row and no metadata row of that ingest.
C27_FailedIngestLeavesNoRecord ==
    ing.pc = "error" =>
        /\ \A i \in images : i.id # nIngests
        /\ \A r \in metadata : r.image_id # nIngests

\* C28: in every state the original blob and the thumbnail blob of every
\* images row are in the blob store.
C28_RecordsHaveTheirBlobs ==
    \A i \in images : i.original_path \in blobs /\ i.thumbnail_path \in blobs

\* C29: a description, tag list or color list an owner's patch has written
\* stays as written in every step that is not a patch, for as long as the
\* image exists; the completion of the enrichment is such a step.
C29_OwnerValuesPersist ==
    [][ \A r \in metadata : \A f \in PatchFields :
          (/\ r[f] = "owner"
           /\ nPatches' = nPatches
           /\ \E i \in images' : i.id = r.image_id) =>
              \E r2 \in metadata' : SameRow(r, r2) /\ r2[f] = "owner"
      ]_vars

\* C30: a step creates at most one enrichment task, and only the schedule
\* step of an ingest that has not scheduled before and carries no error;
\* the task gets the id and the owner of the images row the ingest has
\* inserted, which is in the store with its pending metadata row, and the
\* bytes of the upload that the ingest put as the original blob; an ingest
\* that ends in an error has no task.
C30_ScheduledOnceAfterRecord ==
    [][ /\ \A t \in tasks' \ tasks :
             /\ Cardinality(tasks' \ tasks) = 1
             /\ ing.pc = "schedule" /\ ~ing.scheduled /\ ing'.scheduled
             /\ ing.err = "none"
             /\ t.image_id = ing.image_id /\ t.user_id = ing.user
             /\ t.image_bytes = ing.file
             /\ ing.original_path \in ing.puts
             /\ \E i \in images : /\ i.id = t.image_id /\ i.user_id = t.user_id
                                  /\ i.original_path = ing.original_path
             /\ \E r \in metadata : r.image_id = t.image_id /\ r.status = "pending"
        /\ ing'.pc = "error" =>
             /\ ~ing'.scheduled
             /\ \A t \in tasks' : t.image_id # nIngests'
      ]_vars

\* The ingest has created its task, and the task has not run yet.
C30_Witness ==
    /\ ing.pc = "return"
    /\ ing.scheduled
    /\ \E t \in tasks : /\ t.image_id = ing.image_id /\ t.image_bytes = "good"
                        /\ \E i \in images : i.id = t.image_id /\ i.user_id = t.user_id

====
